---- MODULE Spec2Model ----
(***************************************************************************)
(* Hashed time-locked contract for atomic swaps between Jstz and           *)
(* Etherlink: the Jstz smart function (contracts/jstz/htlc.js), the        *)
(* hardened Etherlink contract (HTLC v2.0) and the Etherlink contract      *)
(* kept under contracts/etherlink/contracts/HTLC.sol.                      *)
(*                                                                         *)
(* JavaScript values are modelled as follows.  A string is the sequence of *)
(* its UTF-16 code units, so "0x" is <<48, 120>>.  null and undefined are  *)
(* one-element sequences holding a number that is no code unit.  A number  *)
(* is an integer; NaN is an integer outside the range the model uses.      *)
(***************************************************************************)
EXTENDS Integers, Sequences, FiniteSets, TLC

\* ------------------------------------------------------------ JS values

null == <<0 - 1>>
undefined == <<0 - 2>>
NaN == 0 - 1000000

\* [i \in 1..n |-> c] as a sequence
Rep(c, n) == SubSeq([i \in 1..n |-> c], 1, n)

\* value || fallback, for a string, null or undefined
OrElse(value, fallback) ==
  IF value = null \/ value = undefined \/ value = <<>> THEN fallback ELSE value

IsDigit(c) == c >= 48 /\ c <= 57
IsLowerHex(c) == c >= 97 /\ c <= 102
IsUpperHex(c) == c >= 65 /\ c <= 70
IsHexChar(c) == IsDigit(c) \/ IsLowerHex(c) \/ IsUpperHex(c)
IsAlnum(c) == IsDigit(c) \/ (c >= 97 /\ c <= 122) \/ (c >= 65 /\ c <= 90)

\* String.prototype.toLowerCase / toUpperCase on the ASCII range
toLowerCase(s) == SubSeq([i \in 1..Len(s) |-> IF s[i] >= 65 /\ s[i] <= 90 THEN s[i] + 32 ELSE s[i]], 1, Len(s))
toUpperCase(s) == SubSeq([i \in 1..Len(s) |-> IF s[i] >= 97 /\ s[i] <= 122 THEN s[i] - 32 ELSE s[i]], 1, Len(s))

\* String.prototype.slice(start), start counted from 0
slice(s, start) == SubSeq(s, start + 1, Len(s))

startsWith0x(s) == Len(s) >= 2 /\ s[1] = 48 /\ s[2] = 120

HexVal(c) ==
  IF IsDigit(c) THEN c - 48
  ELSE IF IsLowerHex(c) THEN c - 87
  ELSE IF IsUpperHex(c) THEN c - 55
  ELSE NaN

\* parseInt(s, 16) of a string of at most two characters: the value of its
\* longest prefix of hex digits, NaN when there is none
ParseInt16(s) ==
  IF Len(s) = 0 \/ HexVal(s[1]) = NaN THEN NaN
  ELSE IF Len(s) = 1 \/ HexVal(s[2]) = NaN THEN HexVal(s[1])
  ELSE 16 * HexVal(s[1]) + HexVal(s[2])

RECURSIVE ParseDigits(_, _, _)
ParseDigits(s, i, acc) ==
  IF i > Len(s) \/ ~IsDigit(s[i]) THEN acc ELSE ParseDigits(s, i + 1, 10 * acc + (s[i] - 48))

\* parseInt(s, 10): an optional sign, then the longest prefix of decimal
\* digits; NaN when there is no digit
ParseInt10(s) ==
  LET signed == Len(s) >= 1 /\ (s[1] = 45 \/ s[1] = 43)
      first  == IF signed THEN 2 ELSE 1
  IN  IF first > Len(s) \/ ~IsDigit(s[first]) THEN NaN
      ELSE IF signed /\ s[1] = 45 THEN 0 - ParseDigits(s, first, 0)
      ELSE ParseDigits(s, first, 0)

\* ------------------------------------------------------------ SHA-256
\* A 32-bit word is <<hi, lo>>, its two 16-bit halves.

Pow2 == <<1, 2, 4, 8, 16, 32, 64, 128, 256, 512, 1024, 2048, 4096, 8192, 16384, 32768, 65536>>
P2(n) == Pow2[n + 1]

\* a & b, a ^ b and a | b on n bits, n a power of two: the low half of the bits
\* and the high half
RECURSIVE And16(_, _, _)
And16(a, b, n) ==
  IF n = 1 THEN a * b
  ELSE And16(a % P2(n \div 2), b % P2(n \div 2), n \div 2)
         + P2(n \div 2) * And16(a \div P2(n \div 2), b \div P2(n \div 2), n \div 2)
RECURSIVE Xor16(_, _, _)
Xor16(a, b, n) ==
  IF n = 1 THEN (a + b) % 2
  ELSE Xor16(a % P2(n \div 2), b % P2(n \div 2), n \div 2)
         + P2(n \div 2) * Xor16(a \div P2(n \div 2), b \div P2(n \div 2), n \div 2)
RECURSIVE Or16(_, _, _)
Or16(a, b, n) ==
  IF n = 1 THEN (IF a + b > 0 THEN 1 ELSE 0)
  ELSE Or16(a % P2(n \div 2), b % P2(n \div 2), n \div 2)
         + P2(n \div 2) * Or16(a \div P2(n \div 2), b \div P2(n \div 2), n \div 2)

\* the operators on two words; an operand that is not a word gives 0
BitXor(a, b) ==
  IF Len(a) = 2 /\ Len(b) = 2 THEN << Xor16(a[1], b[1], 16), Xor16(a[2], b[2], 16) >> ELSE <<0, 0>>
BitAnd(a, b) ==
  IF Len(a) = 2 /\ Len(b) = 2 THEN << And16(a[1], b[1], 16), And16(a[2], b[2], 16) >> ELSE <<0, 0>>
BitOr(a, b) ==
  IF Len(a) = 2 /\ Len(b) = 2 THEN << Or16(a[1], b[1], 16), Or16(a[2], b[2], 16) >> ELSE <<0, 0>>
BitNot(a) == << 65535 - a[1], 65535 - a[2] >>

\* x >>> n, 0 <= n <= 32
ShrU(x, n) ==
  IF n >= 16 THEN << 0, x[1] \div P2(n - 16) >>
  ELSE << x[1] \div P2(n), (x[2] \div P2(n)) + (x[1] % P2(n)) * P2(16 - n) >>

\* x << n kept to 32 bits, 0 <= n <= 32
Shl(x, n) ==
  IF n >= 16 THEN << (x[2] % P2(32 - n)) * P2(n - 16), 0 >>
  ELSE << (x[1] % P2(16 - n)) * P2(n) + x[2] \div P2(16 - n), (x[2] % P2(16 - n)) * P2(n) >>

RECURSIVE SumHalf(_, _, _)
SumHalf(ws, k, h) == IF k = 0 THEN 0 ELSE SumHalf(ws, k - 1, h) + ws[k][h]

\* (w1 + w2 + ...) >>> 0
Add32(ws) ==
  LET lo == SumHalf(ws, Len(ws), 2)
      hi == SumHalf(ws, Len(ws), 1) + lo \div 65536
  IN  << hi % 65536, lo % 65536 >>

rotr(n, x) == BitOr(ShrU(x, n), Shl(x, 32 - n))
ch(x, y, z) == BitXor(BitAnd(x, y), BitAnd(BitNot(x), z))
maj(x, y, z) == BitXor(BitXor(BitAnd(x, y), BitAnd(x, z)), BitAnd(y, z))
sigma0(x) == BitXor(BitXor(rotr(2, x), rotr(13, x)), rotr(22, x))
sigma1(x) == BitXor(BitXor(rotr(6, x), rotr(11, x)), rotr(25, x))
gamma0(x) == BitXor(BitXor(rotr(7, x), rotr(18, x)), ShrU(x, 3))
gamma1(x) == BitXor(BitXor(rotr(17, x), rotr(19, x)), ShrU(x, 10))

K ==
  << <<\h428a, \h2f98>>, <<\h7137, \h4491>>, <<\hb5c0, \hfbcf>>, <<\he9b5, \hdba5>>,
     <<\h3956, \hc25b>>, <<\h59f1, \h11f1>>, <<\h923f, \h82a4>>, <<\hab1c, \h5ed5>>,
     <<\hd807, \haa98>>, <<\h1283, \h5b01>>, <<\h2431, \h85be>>, <<\h550c, \h7dc3>>,
     <<\h72be, \h5d74>>, <<\h80de, \hb1fe>>, <<\h9bdc, \h06a7>>, <<\hc19b, \hf174>>,
     <<\he49b, \h69c1>>, <<\hefbe, \h4786>>, <<\h0fc1, \h9dc6>>, <<\h240c, \ha1cc>>,
     <<\h2de9, \h2c6f>>, <<\h4a74, \h84aa>>, <<\h5cb0, \ha9dc>>, <<\h76f9, \h88da>>,
     <<\h983e, \h5152>>, <<\ha831, \hc66d>>, <<\hb003, \h27c8>>, <<\hbf59, \h7fc7>>,
     <<\hc6e0, \h0bf3>>, <<\hd5a7, \h9147>>, <<\h06ca, \h6351>>, <<\h1429, \h2967>>,
     <<\h27b7, \h0a85>>, <<\h2e1b, \h2138>>, <<\h4d2c, \h6dfc>>, <<\h5338, \h0d13>>,
     <<\h650a, \h7354>>, <<\h766a, \h0abb>>, <<\h81c2, \hc92e>>, <<\h9272, \h2c85>>,
     <<\ha2bf, \he8a1>>, <<\ha81a, \h664b>>, <<\hc24b, \h8b70>>, <<\hc76c, \h51a3>>,
     <<\hd192, \he819>>, <<\hd699, \h0624>>, <<\hf40e, \h3585>>, <<\h106a, \ha070>>,
     <<\h19a4, \hc116>>, <<\h1e37, \h6c08>>, <<\h2748, \h774c>>, <<\h34b0, \hbcb5>>,
     <<\h391c, \h0cb3>>, <<\h4ed8, \haa4a>>, <<\h5b9c, \hca4f>>, <<\h682e, \h6ff3>>,
     <<\h748f, \h82ee>>, <<\h78a5, \h636f>>, <<\h84c8, \h7814>>, <<\h8cc7, \h0208>>,
     <<\h90be, \hfffa>>, <<\ha450, \h6ceb>>, <<\hbef9, \ha3f7>>, <<\hc671, \h78f2>> >>

H0 ==
  << <<\h6a09, \he667>>, <<\hbb67, \hae85>>, <<\h3c6e, \hf372>>, <<\ha54f, \hf53a>>,
     <<\h510e, \h527f>>, <<\h9b05, \h688c>>, <<\h1f83, \hd9ab>>, <<\h5be0, \hcd19>> >>

\* the bytes of a 0x-prefixed string: one parseInt per two characters
HexBytes(hex) ==
  LET n == (Len(hex) + 1) \div 2
  IN  SubSeq([k \in 1..n |->
                ParseInt16(SubSeq(hex, 2 * k - 1, IF 2 * k <= Len(hex) THEN 2 * k ELSE 2 * k - 1))],
             1, n)

\* the UTF-8 encoding loop: code units of 2048 and above push nothing
\* the bytes pushed for message[from..to], the range split in two halves
RECURSIVE Utf8Bytes(_, _, _)
Utf8Bytes(message, from, to) ==
  IF from > to THEN <<>>
  ELSE IF from = to
    THEN LET code == message[from]
         IN  IF code < 128 THEN <<code>>
             ELSE IF code < 2048 THEN << 192 + (code \div 64), 128 + (code % 64) >>
             ELSE <<>>
  ELSE Utf8Bytes(message, from, (from + to) \div 2)
         \o Utf8Bytes(message, (from + to) \div 2 + 1, to)

MessageBytes(message) ==
  IF startsWith0x(message) THEN HexBytes(slice(message, 2)) ELSE Utf8Bytes(message, 1, Len(message))

\* variant: at least one zero byte is pushed
ZeroPadAtLeastOne(bytes) == bytes \o Rep(0, 1 + ((119 - (Len(bytes) % 64)) % 64))

\* while (bytes.length % 64 !== 56) bytes.push(0)
ZeroPad(bytes) == bytes \o Rep(0, (120 - (Len(bytes) % 64)) % 64)

Padded(bytes) ==
  LET bitLen == Len(bytes) * 8
  IN  ZeroPad(Append(bytes, 128))
        \o <<0, 0, 0, 0>>
        \o << (bitLen \div 16777216) % 256, (bitLen \div 65536) % 256,
              (bitLen \div 256) % 256, bitLen % 256 >>

\* a byte as an operand of << and |: NaN converts to 0
ToInt32(b) == IF b = NaN THEN 0 ELSE b

\* W[0..15] of the chunk that starts at byte i (counted from 0)
ChunkWords(bytes, i) ==
  SubSeq([t \in 1..16 |->
            << ToInt32(bytes[i + (t - 1) * 4 + 1]) * 256 + ToInt32(bytes[i + (t - 1) * 4 + 2]),
               ToInt32(bytes[i + (t - 1) * 4 + 3]) * 256 + ToInt32(bytes[i + (t - 1) * 4 + 4]) >>],
         1, 16)

\* W extended by its words from..to (counted from 1), the range split in two
\* halves
RECURSIVE Extend(_, _, _)
Extend(W, from, to) ==
  IF Len(W) >= to THEN W
  ELSE IF from = to
    THEN Append(W, Add32(<< gamma1(W[to - 2]), W[to - 7], gamma0(W[to - 15]), W[to - 16] >>))
  ELSE Extend(Extend(W, from, (from + to) \div 2), (from + to) \div 2 + 1, to)

\* one round of the main loop on v = <<a, b, c, d, e, f, g, h>>
Round(v, Kt, Wt) ==
  LET T1 == Add32(<< v[8], sigma1(v[5]), ch(v[5], v[6], v[7]), Kt, Wt >>)
      T2 == Add32(<< sigma0(v[1]), maj(v[1], v[2], v[3]) >>)
  IN  IF Len(T1) = 2 /\ Len(T2) = 2
      THEN << Add32(<<T1, T2>>), v[1], v[2], v[3], Add32(<<v[4], T1>>), v[5], v[6], v[7] >>
      ELSE v

\* the rounds from..to (counted from 1) on v, the range split in two halves
RECURSIVE MainLoop(_, _, _, _)
MainLoop(v, W, from, to) ==
  IF Len(v) # 8 THEN v
  ELSE IF from = to THEN Round(v, K[from], W[from])
  ELSE MainLoop(MainLoop(v, W, from, (from + to) \div 2), W, (from + to) \div 2 + 1, to)

Compress(H, bytes, i) ==
  LET W == Extend(ChunkWords(bytes, i), 17, 64)
      v == IF Len(W) = 64 THEN MainLoop(H, W, 1, 64) ELSE H
  IN  IF Len(v) = 8
      THEN << Add32(<<H[1], v[1]>>), Add32(<<H[2], v[2]>>), Add32(<<H[3], v[3]>>),
              Add32(<<H[4], v[4]>>), Add32(<<H[5], v[5]>>), Add32(<<H[6], v[6]>>),
              Add32(<<H[7], v[7]>>), Add32(<<H[8], v[8]>>) >>
      ELSE H

RECURSIVE Chunks(_, _, _)
Chunks(H, bytes, i) ==
  IF Len(H) = 8 /\ i < Len(bytes) THEN Chunks(Compress(H, bytes, i), bytes, i + 64) ELSE H

\* the eight words of the digest of a byte sequence
Sha256Words(bytes) == Chunks(H0, Padded(bytes), 0)

\* one hex digit of h.toString(16): a lower-case code unit
HexDigit(v) == IF v < 10 THEN 48 + v ELSE 87 + v
Hex4(v) ==
  << HexDigit(v \div 4096), HexDigit((v \div 256) % 16), HexDigit((v \div 16) % 16), HexDigit(v % 16) >>

\* h.toString(16).padStart(8, '0')
WordHex(w) == Hex4(w[1]) \o Hex4(w[2])

\* '0x' + h.toString(16).padStart(8, '0') of the eight words
WordsHex(H) ==
  <<48, 120>> \o WordHex(H[1]) \o WordHex(H[2]) \o WordHex(H[3]) \o WordHex(H[4])
    \o WordHex(H[5]) \o WordHex(H[6]) \o WordHex(H[7]) \o WordHex(H[8])

\* sha256(message): '0x' + the eight words in hex
sha256(message) ==
  LET H == Sha256Words(MessageBytes(message))
  IN  <<48, 120>> \o WordHex(H[1]) \o WordHex(H[2]) \o WordHex(H[3]) \o WordHex(H[4])
        \o WordHex(H[5]) \o WordHex(H[6]) \o WordHex(H[7]) \o WordHex(H[8])

\* sha256(message) of a message that is no string: bytes = Array.from(message)
sha256OfArray(message) == WordsHex(Sha256Words(message))

\* the four bytes of a word, most significant first
WordBytes(w) == << w[1] \div 256, w[1] % 256, w[2] \div 256, w[2] % 256 >>

\* SHA-256 as the standard defines it: the 32 bytes of the digest of a byte string
Sha256Bytes(bytes) ==
  LET H == Sha256Words(bytes)
  IN  WordBytes(H[1]) \o WordBytes(H[2]) \o WordBytes(H[3]) \o WordBytes(H[4])
        \o WordBytes(H[5]) \o WordBytes(H[6]) \o WordBytes(H[7]) \o WordBytes(H[8])

\* ------------------------------------------------------------ state

VARIABLES
  digests,         \* the digests of the secrets in use, computed once in Init
  deployed,        \* the implementations this run deploys
  agreed,          \* the hashlock the two parties agreed on, as each chain takes it
  Kv,              \* Jstz: the key-value store of the smart function
  dateNow,         \* Jstz: what Date.now() returns, in milliseconds
  request,         \* Jstz: the request the handler is serving
  response,        \* Jstz: the Response the handler returned, until the runtime has taken it
  issued,          \* Jstz: the transfers the runtime was told to make, in order
  swaps,           \* Etherlink: the mapping swaps, on the identifiers written so far
  balance,         \* Etherlink: address(this).balance
  contractOwner,   \* Etherlink: the owner the constructor of HTLC.sol records
  blockTimestamp,  \* Etherlink: block.timestamp
  tx,              \* Etherlink: the transaction being executed
  receipt,         \* Etherlink: its outcome, until the transaction is confirmed
  paid,            \* Etherlink: the value the contract has sent out, in order
  poll             \* the web page: the call of pollJstzOperation in progress

vars ==
  <<digests, deployed, agreed, Kv, dateNow, request, response, issued,
    swaps, balance, contractOwner, blockTimestamp, tx, receipt, paid, poll>>

\* what no step of the contracts changes
fixed == <<digests, deployed, agreed, poll>>
jstzVars == <<Kv, dateNow, request, response, issued>>
etherlinkVars == <<swaps, balance, contractOwner, blockTimestamp, tx, receipt, paid>>

\* hashSecret(secret) = sha256(secret): the digest computed in Init
hashSecret(secret) == digests.jstz[secret]

\* the precompiled sha256 of the EVM: the digest computed in Init
EvmSha256(bytes) == digests.evm[bytes]

\* ------------------------------------------------------------ Jstz: constants

ONE_TEZ == 1000000
MAX_SWAPS_LIST == 100
MIN_AMOUNT_MUTEZ == 1000
INTERNAL_KEYS_LIMIT == 10000
KEEP_LAST_KEYS == 1000

\* JS null where an object or a number is expected
nullObject == [null |-> TRUE]
nullNumber == NaN - 1

\* a JS value whose type the code tests: a number is kept in halves, so that
\* Math.floor has something to do
JsNumber(halves) == [type |-> "number", halves |-> halves]
JsString(s) == [type |-> "string", chars |-> s]
JsUndefined == [type |-> "undefined"]

IsString(v) == v # null /\ v # undefined

\* 'anonymous'
anonymous == <<97, 110, 111, 110, 121, 109, 111, 117, 115>>
\* 'swap_keys'
swap_keys == <<115, 119, 97, 112, 95, 107, 101, 121, 115>>

\* ------------------------------------------------------------ Jstz: validation helpers

\* /^0x[0-9a-fA-F]{64}$/
HASHLOCK_REGEX(s) ==
  /\ Len(s) = 66
  /\ s[1] = 48
  /\ s[2] = 120
  /\ \A i \in 3..66 : IsHexChar(s[i])

isValidHashlock(hashlock) == IsString(hashlock) /\ HASHLOCK_REGEX(hashlock)

parseAmountMutez(value) ==
  IF value.type = "number" /\ value.halves # NaN /\ value.halves >= 0 THEN value.halves \div 2
  ELSE IF value.type = "string"
            /\ ParseInt10(value.chars) # NaN /\ ParseInt10(value.chars) >= 0
       THEN ParseInt10(value.chars)
  ELSE 0

parseExpiration(exp) ==
  LET ts == IF exp.type = "string"
            THEN (IF ParseInt10(exp.chars) = NaN THEN JsNumber(NaN)
                  ELSE JsNumber(2 * ParseInt10(exp.chars)))
            ELSE exp
  IN  IF ts.type = "number" /\ ts.halves # NaN /\ ts.halves > 0 THEN ts.halves \div 2
      ELSE nullNumber

\* /^(tz[1-3]|KT1)[a-zA-Z0-9]{33}$/
isValidAddress(address) ==
  /\ IsString(address)
  /\ Len(address) = 36
  /\ \/ address[1] = 116 /\ address[2] = 122 /\ address[3] \in {49, 50, 51}
     \/ address[1] = 75 /\ address[2] = 84 /\ address[3] = 49
  /\ \A i \in 4..36 : IsAlnum(address[i])

\* ------------------------------------------------------------ Jstz: time and storage helpers

\* now() when Date.now() returns dateNowMs
now(dateNowMs) == dateNowMs \div 1000

\* JSON.stringify and JSON.parse of a value built from strings, finite numbers,
\* null, arrays and objects: the text stands for exactly that value
JSONstringify(value) == [json |-> value]
JSONparse(text) == text.json

KvGet(kv, key) == IF key \in DOMAIN kv THEN kv[key] ELSE nullObject
KvSet(kv, key, text) == [k \in DOMAIN kv \cup {key} |-> IF k = key THEN text ELSE kv[k]]

getSwapFromKv(kv, hashlock) ==
  IF ~isValidHashlock(hashlock) THEN nullObject
  ELSE LET data == KvGet(kv, slice(hashlock, 2))
       IN  IF data # nullObject THEN JSONparse(data) ELSE nullObject

saveSwapToKv(kv, hashlock, swap) == KvSet(kv, slice(hashlock, 2), JSONstringify(swap))

\* array.slice(-limit)
SliceFromEnd(array, limit) ==
  IF limit = NaN \/ limit = 0 THEN array
  ELSE IF limit >= Len(array) THEN array
  ELSE IF limit > 0 THEN SubSeq(array, Len(array) - limit + 1, Len(array))
  ELSE IF 0 - limit >= Len(array) THEN <<>>
  ELSE SubSeq(array, (0 - limit) + 1, Len(array))

getAllSwapKeys(kv, limit) ==
  LET keys == KvGet(kv, swap_keys)
      allKeys == IF keys # nullObject THEN JSONparse(keys) ELSE <<>>
  IN  SliceFromEnd(allKeys, limit)

Includes(array, x) == \E i \in 1..Len(array) : array[i] = x

\* variant: the list is stored without being pruned
addSwapKeyUnpruned(kv, hashlock) ==
  LET keys == getAllSwapKeys(kv, INTERNAL_KEYS_LIMIT)
  IN  IF ~Includes(keys, hashlock)
      THEN KvSet(kv, swap_keys, JSONstringify(Append(keys, hashlock)))
      ELSE kv

addSwapKey(kv, hashlock) ==
  LET keys == getAllSwapKeys(kv, INTERNAL_KEYS_LIMIT)
  IN  IF ~Includes(keys, hashlock)
      THEN KvSet(kv, swap_keys, JSONstringify(SliceFromEnd(Append(keys, hashlock), KEEP_LAST_KEYS)))
      ELSE kv

\* mutez / ONE_TEZ, kept as numerator and denominator
mutezToXtz(mutez) == <<mutez, ONE_TEZ>>


RECURSIVE DecimalDigits(_)
DecimalDigits(n) == IF n < 10 THEN <<48 + n>> ELSE Append(DecimalDigits(n \div 10), 48 + (n % 10))
\* Number.prototype.toString() of a non-negative integer
toString(n) == DecimalDigits(n)

\* ------------------------------------------------------------ bounds and inputs

\* clock ticks (seconds) the model lets pass
MaxClock == 1

\* milliseconds: Date.now() at the start, and one tick
TickMs == 1000
StartMs == TickMs \div 2

\* the bytes 0x00 .. 0x1f: the 32-byte secret of the cross-chain test
SecretABytes == SubSeq([i \in 1..32 |-> i - 1], 1, 32)
SecretBBytes == Rep(17, 32)
\* 'short' as bytes: a secret that is not 32 bytes long
ShortSecretBytes == <<115, 104, 111, 114, 116>>

HexOfBytes(bytes) ==
  SubSeq([k \in 1..(2 * Len(bytes)) |->
            IF k % 2 = 1 THEN HexDigit(bytes[(k + 1) \div 2] \div 16)
            ELSE HexDigit(bytes[k \div 2] % 16)],
         1, 2 * Len(bytes))
\* '0x' + hex
HexString(bytes) == <<48, 120>> \o HexOfBytes(bytes)

SecretA == HexString(SecretABytes)
SecretB == HexString(SecretBBytes)
ShortSecret == HexString(ShortSecretBytes)

\* '0xab'
BadHashlock == <<48, 120, 97, 98>>

\* the secrets whose digests the model keeps: as Jstz and as Etherlink take them
HashedMessages == {SecretA, SecretB, ShortSecret}
HashedBytes == {SecretABytes, SecretBBytes, ShortSecretBytes}

\* Jstz addresses: tz1AAA..., tz1BBB...; 'bob' is no address
Alice == <<116, 122, 49>> \o Rep(65, 33)
Bob == <<116, 122, 49>> \o Rep(66, 33)
NotAnAddress == <<98, 111, 98>>

Referers == {null, Alice, Bob}
SecretInputs == {SecretA, SecretB, ShortSecret, undefined}
RecipientInputs == {undefined, Bob, NotAnAddress}
\* 0.5, 1.5, ..., a string of digits and a missing expiration
ExpirationInputs ==
  {JsNumber(2 * e + 1) : e \in 0..MaxClock} \cup {JsString(<<48 + MaxClock + 1>>), JsUndefined}
\* X-JSTZ-AMOUNT: '999', '1000', '2500'
AmountHeaders == {<<57, 57, 57>>, <<49, 48, 48, 48>>, <<50, 53, 48, 48>>}

HashlockA == hashSecret(SecretA)
HashlockB == hashSecret(SecretB)
HashlockShort == hashSecret(ShortSecret)
\* the hashlocks of the calls; swaps are initiated under the agreed one only
HashlockInputs == {agreed.jstz, HashlockB, BadHashlock}
InitiateHashlocks == {agreed.jstz, BadHashlock}

\* ?status= : none, or a status to filter by
StatusInputs == {"", "OPEN", "CLAIMED"}
\* ?limit= : none, '1', no number, '0', '-1', '1000'
LimitInputs == {undefined, <<49>>, <<120>>, <<48>>, <<45, 49>>, <<49, 48, 48, 48>>}

\* no call of pollJstzOperation is in progress
NoPoll == [pc |-> "none"]

NoRequest == [path |-> "none"]
NoResponse == [status |-> 0]

EmptyKv == [k \in {} |-> nullObject]

\* the swap records of the store
SwapKeys(kv) == DOMAIN kv \ {swap_keys}


\* ------------------------------------------------------------ a store of many swaps

\* the most swaps a store starts with
MaxStored == 102

\* the i-th of the hashlocks the swaps of such a store are locked under
NthHashlock(i) ==
  <<48, 120>> \o Rep(48, 61) \o <<HexDigit(i \div 256), HexDigit((i \div 16) % 16), HexDigit(i % 16)>>

\* the sizes of the stores: none, few, and around MAX_SWAPS_LIST
StoreSizes == {0, 1, 2} \cup {n \in 1..MaxStored : n >= MaxStored - 2}

\* ------------------------------------------------------------ a two-sided swap

\* the last tick of either clock in a two-sided swap
MaxSwapClock == 2

\* the expirations of the two sides: the responder's is the earlier one
ResponderExpiration == MaxSwapClock - 1
InitiatorExpiration == MaxSwapClock

\* ------------------------------------------------------------ a growing store

\* the most swaps created on top of those a store starts with
MaxCreated == 2

\* the sizes such a store starts with: empty, and one short of KEEP_LAST_KEYS
IndexSizes == {0, KEEP_LAST_KEYS - 1}

\* ------------------------------------------------------------ inputs of the digest

\* the empty byte string
NoBytes == <<>>
\* 'abc'
Abc == <<97, 98, 99>>
\* the byte 0x00
ZeroByte == <<0>>
\* the byte 0x80, no text in UTF-8
HighByte == <<128>>
\* 0xff 0xfe 0xfd, no text in UTF-8
NoText == <<255, 254, 253>>
\* the UTF-8 encoding of U+00E9
Accented == <<195, 169>>
\* the UTF-8 encoding of U+20AC
Euro == <<226, 130, 172>>
\* '0xab' as text
ZeroX == <<48, 120, 97, 98>>
\* 55 bytes: the longest input of one block
OneBlock == Rep(97, 55)
\* 56 bytes: the shortest input of two blocks
TwoBlocks == Rep(97, 56)
\* 'abcdbcdecdef...nopq', 56 bytes
Nist56 == <<97, 98, 99, 100, 98, 99, 100, 101, 99, 100, 101, 102, 100, 101, 102, 103, 101, 102, 103,
  104, 102, 103, 104, 105, 103, 104, 105, 106, 104, 105, 106, 107, 105, 106, 107, 108, 106,
  107, 108, 109, 107, 108, 109, 110, 108, 109, 110, 111, 109, 110, 111, 112, 110, 111, 112,
  113>>
\* 64 bytes
FullBlock == Rep(97, 64)
\* 'abcdefghbcdefghi...nopqrstu', 112 bytes
Nist112 == <<97, 98, 99, 100, 101, 102, 103, 104, 98, 99, 100, 101, 102, 103, 104, 105, 99, 100, 101,
  102, 103, 104, 105, 106, 100, 101, 102, 103, 104, 105, 106, 107, 101, 102, 103, 104, 105,
  106, 107, 108, 102, 103, 104, 105, 106, 107, 108, 109, 103, 104, 105, 106, 107, 108, 109,
  110, 104, 105, 106, 107, 108, 109, 110, 111, 105, 106, 107, 108, 109, 110, 111, 112, 106,
  107, 108, 109, 110, 111, 112, 113, 107, 108, 109, 110, 111, 112, 113, 114, 108, 109, 110,
  111, 112, 113, 114, 115, 109, 110, 111, 112, 113, 114, 115, 116, 110, 111, 112, 113, 114,
  115, 116, 117>>
\* 120 bytes: the shortest input of three blocks
ThreeBlocks == Rep(98, 120)

\* U+00E9, U+20AC and '0xab' as the code units of a string
AccentedText == <<233>>
EuroText == <<8364>>

\* the byte strings the digest is applied to
DigestInputs ==
  {NoBytes, Abc, ZeroByte, HighByte, NoText, Accented, Euro, ZeroX, SecretABytes, OneBlock,
   TwoBlocks, Nist56, FullBlock, Nist112, ThreeBlocks}

\* the byte strings that are the UTF-8 encoding of a text, and that text
TextInputs ==
  {NoBytes, Abc, ZeroByte, Accented, Euro, ZeroX, OneBlock, TwoBlocks, Nist56, FullBlock,
   Nist112, ThreeBlocks}
TextOf(bytes) ==
  IF bytes = Accented THEN AccentedText
  ELSE IF bytes = Euro THEN EuroText
  ELSE bytes

\* SHA-256 (FIPS 180-4) of the inputs, as 32 bytes: the published values
StandardDigest(bytes) ==
  CASE bytes = NoBytes ->
         <<227, 176, 196, 66, 152, 252, 28, 20, 154, 251, 244, 200, 153, 111, 185, 36, 39, 174, 65,
           228, 100, 155, 147, 76, 164, 149, 153, 27, 120, 82, 184, 85>>
    [] bytes = Abc ->
         <<186, 120, 22, 191, 143, 1, 207, 234, 65, 65, 64, 222, 93, 174, 34, 35, 176, 3, 97, 163,
           150, 23, 122, 156, 180, 16, 255, 97, 242, 0, 21, 173>>
    [] bytes = ZeroByte ->
         <<110, 52, 11, 156, 255, 179, 122, 152, 156, 165, 68, 230, 187, 120, 10, 44, 120, 144, 29,
           63, 179, 55, 56, 118, 133, 17, 163, 6, 23, 175, 160, 29>>
    [] bytes = HighByte ->
         <<118, 190, 139, 82, 141, 0, 117, 247, 170, 233, 141, 111, 165, 122, 109, 60, 131, 174, 72,
           10, 132, 105, 230, 104, 215, 176, 175, 150, 137, 149, 172, 113>>
    [] bytes = NoText ->
         <<140, 169, 248, 194, 105, 192, 164, 177, 216, 191, 14, 252, 103, 217, 125, 248, 173, 94,
           14, 169, 54, 48, 253, 144, 153, 134, 13, 54, 192, 254, 117, 234>>
    [] bytes = Accented ->
         <<74, 153, 85, 126, 64, 51, 195, 83, 157, 226, 235, 101, 71, 32, 23, 202, 213, 249, 85,
           127, 122, 6, 37, 160, 159, 28, 63, 110, 43, 166, 156, 76>>
    [] bytes = Euro ->
         <<196, 204, 144, 237, 61, 38, 241, 45, 75, 8, 167, 81, 64, 151, 10, 121, 4, 3, 92, 49, 203,
           180, 81, 90, 131, 241, 155, 144, 3, 192, 13, 29>>
    [] bytes = ZeroX ->
         <<165, 3, 80, 222, 140, 191, 188, 67, 238, 4, 225, 62, 130, 135, 57, 1, 148, 234, 240, 125,
           178, 158, 194, 64, 113, 248, 138, 3, 171, 90, 133, 65>>
    [] bytes = SecretABytes ->
         <<99, 13, 205, 41, 102, 196, 51, 102, 145, 18, 84, 72, 187, 178, 91, 79, 244, 18, 164, 156,
           115, 45, 178, 200, 171, 193, 184, 88, 27, 215, 16, 221>>
    [] bytes = OneBlock ->
         <<159, 67, 144, 248, 211, 12, 45, 217, 46, 201, 240, 149, 182, 94, 43, 154, 233, 176, 169,
           37, 165, 37, 142, 36, 28, 159, 30, 145, 15, 115, 67, 24>>
    [] bytes = TwoBlocks ->
         <<179, 84, 57, 164, 172, 111, 9, 72, 182, 214, 249, 227, 198, 175, 15, 95, 89, 12, 226, 15,
           27, 222, 112, 144, 239, 121, 112, 104, 110, 198, 115, 138>>
    [] bytes = Nist56 ->
         <<36, 141, 106, 97, 210, 6, 56, 184, 229, 192, 38, 147, 12, 62, 96, 57, 163, 60, 228, 89,
           100, 255, 33, 103, 246, 236, 237, 212, 25, 219, 6, 193>>
    [] bytes = FullBlock ->
         <<255, 224, 84, 254, 122, 224, 203, 109, 198, 92, 58, 249, 182, 29, 82, 9, 244, 57, 133,
           29, 180, 61, 11, 165, 153, 115, 55, 223, 21, 70, 104, 235>>
    [] bytes = Nist112 ->
         <<207, 91, 22, 167, 120, 175, 131, 128, 3, 108, 229, 158, 123, 4, 146, 55, 11, 36, 155, 17,
           232, 240, 122, 81, 175, 172, 69, 3, 122, 254, 233, 209>>
    [] bytes = ThreeBlocks ->
         <<57, 42, 221, 71, 251, 170, 129, 151, 168, 116, 235, 231, 112, 169, 71, 162, 109, 214,
           242, 190, 204, 229, 246, 70, 136, 204, 77, 24, 201, 218, 147, 189>>

\* the most requests a run of racing requests receives
MaxRequests == 4

\* the longest input whose padding is looked at: two full blocks and two bytes
MaxPadded == 130
\* an input of n bytes, none of them zero or 0x80
PadInput(n) == SubSeq([i \in 1..n |-> 1 + (i % 100)], 1, n)

\* ------------------------------------------------------------ polling

\* the largest maxAttempts pollJstzOperation is called with
MaxAttempts == 3
\* ------------------------------------------------------------ Jstz: core functions
\* Each function takes the store and the values its first and its last now() call
\* return, and gives the store it leaves with either the error it throws or the
\* value it returns: a throw undoes no write.
\* An error message is the sequence of the parts of its template.

Throw(kv, error) == [threw |-> TRUE, kv |-> kv, error |-> error]
Return(kv, value) == [threw |-> FALSE, kv |-> kv, value |-> value]

\* new Response(JSON.stringify(body), {status, headers})
Response(status, body, transfer) ==
  [status |-> status, body |-> JSONstringify(body), XJstzTransfer |-> transfer]

OPEN == "OPEN"
CLAIMED == "CLAIMED"
REFUNDED == "REFUNDED"

\* variant: the minimum itself is refused
AmountNotAboveMinimum(amount) == amount <= MIN_AMOUNT_MUTEZ

AmountTooSmall(amount) == amount < MIN_AMOUNT_MUTEZ

\* variant: no status guard
NotOpenUnguarded(swap) == FALSE

\* variant: only a claimed swap counts as closed
NotOpenUnlessRefunded(swap) == swap.status = CLAIMED

NotOpen(swap) == swap.status # OPEN

ExpirationNotInFuture(exp, t) == exp <= t

\* variant: only !sender is tested
SenderMissingOnly(sender) == sender = null \/ sender = undefined \/ sender = <<>>

SenderMissing(sender) == sender = null \/ sender = undefined \/ sender = <<>> \/ sender = anonymous

RecipientInvalid(recipient) == OrElse(recipient, null) # null /\ ~isValidAddress(recipient)

NewSwap(hashlock, sender, recipient, amount, exp, t) ==
  [hashlock |-> hashlock,
   sender |-> sender,
   recipient |-> OrElse(recipient, null),
   amountMutez |-> amount,
   amountXtz |-> mutezToXtz(amount),
   expiration |-> exp,
   status |-> OPEN,
   createdAt |-> t]

initiate(kv, t1, t2, hashlock, recipient, expiration, amountMutez, sender) ==
  LET amount == parseAmountMutez(amountMutez)
      exp == parseExpiration(expiration)
      swap == NewSwap(hashlock, sender, recipient, amount, exp, t2)
  IN  IF ~isValidHashlock(hashlock)
        THEN Throw(kv, <<"Invalid hashlock: must be 0x followed by exactly 64 hex characters">>)
      ELSE IF AmountTooSmall(amount) 
        THEN Throw(kv, <<"Insufficient amount: minimum is ", MIN_AMOUNT_MUTEZ, " mutez (",
                         mutezToXtz(MIN_AMOUNT_MUTEZ), " XTZ). Received: ", amount,
                         " mutez. Send tez with the transaction.">>)
      ELSE IF exp = nullNumber \/ exp = 0
        THEN Throw(kv, <<"Invalid expiration: must be a valid Unix timestamp">>)
      ELSE IF ExpirationNotInFuture(exp, t1) THEN Throw(kv, <<"Expiration must be in the future">>)
      ELSE IF SenderMissing(sender)
        THEN Throw(kv, <<"Sender address required (should be set by runtime via Referer)">>)
      ELSE IF RecipientInvalid(recipient) THEN Throw(kv, <<"Invalid recipient address format">>)
      ELSE IF getSwapFromKv(kv, hashlock) # nullObject
        THEN Throw(kv, <<"Swap with this hashlock already exists">>)
      ELSE Return(addSwapKey(saveSwapToKv(kv, hashlock, swap), hashlock),
                  [success |-> TRUE, event |-> "SwapInitiated", data |-> swap,
                   message |-> <<"Successfully locked ", mutezToXtz(amount), " XTZ">>])

SecretMissing(secret) == secret = null \/ secret = undefined \/ secret = <<>>

\* variant: a claim at the expiration itself passes
ClaimExpiredStrictly(t, swap) == t > swap.expiration

ClaimExpired(t, swap) == t >= swap.expiration

SecretMatches(computedHash, hashlock) == toLowerCase(computedHash) = toLowerCase(hashlock)

\* variant: a swap without a recipient is treated as one for nobody
ClaimerNotRecipientOrNone(swap, claimer) == swap.recipient # claimer

ClaimerNotRecipient(swap, claimer) == swap.recipient # null /\ swap.recipient # claimer

\* variant: the claim does not keep the secret
ClaimedSwapWithoutSecret(swap, secret, claimer, t) ==
  [f \in DOMAIN swap \cup {"claimedBy", "claimedAt"} |->
     CASE f = "status" -> CLAIMED
       [] f = "claimedBy" -> claimer
       [] f = "claimedAt" -> t
       [] OTHER -> swap[f]]

ClaimedSwap(swap, secret, claimer, t) ==
  [f \in DOMAIN swap \cup {"claimedBy", "claimedAt", "revealedSecret"} |->
     CASE f = "status" -> CLAIMED
       [] f = "claimedBy" -> claimer
       [] f = "claimedAt" -> t
       [] f = "revealedSecret" -> secret
       [] OTHER -> swap[f]]

\* variant: the response of a claim carries no X-JSTZ-TRANSFER header
ClaimResponseWithoutTransfer(swap, hashlock, secret, claimer) ==
  Response(200,
           [success |-> TRUE, event |-> "SwapClaimed",
            data |-> [hashlock |-> hashlock, secret |-> secret, claimedBy |-> claimer,
                      amount |-> swap.amountXtz, amountMutez |-> swap.amountMutez]],
           null)

ClaimResponse(swap, hashlock, secret, claimer) ==
  Response(200,
           [success |-> TRUE, event |-> "SwapClaimed",
            data |-> [hashlock |-> hashlock, secret |-> secret, claimedBy |-> claimer,
                      amount |-> swap.amountXtz, amountMutez |-> swap.amountMutez]],
           toString(swap.amountMutez))

\* variant: the swap is saved as claimed before the claimer is checked
claimSavingFirst(kv, t1, t2, hashlock, secret, claimer) ==
  LET swap == getSwapFromKv(kv, hashlock)
      claimed == ClaimedSwap(swap, secret, claimer, t2)
  IN  IF ~isValidHashlock(hashlock) THEN Throw(kv, <<"Invalid hashlock format">>)
      ELSE IF SecretMissing(secret) THEN Throw(kv, <<"Secret is required">>)
      ELSE IF ~isValidHashlock(secret)
        THEN Throw(kv, <<"Invalid secret format: must be 0x + 64 hex chars">>)
      ELSE IF SenderMissing(claimer) THEN Throw(kv, <<"Claimer address required">>)
      ELSE IF swap = nullObject THEN Throw(kv, <<"Swap not found">>)
      ELSE IF NotOpen(swap) THEN Throw(kv, <<"Swap is ", swap.status, ", cannot claim">>)
      ELSE IF ClaimExpired(t1, swap) THEN Throw(kv, <<"Swap has expired, cannot claim">>)
      ELSE IF ~SecretMatches(hashSecret(secret), hashlock)
        THEN Throw(kv, <<"Invalid secret: hash does not match hashlock">>)
      ELSE IF ClaimerNotRecipient(swap, claimer)
        THEN Throw(saveSwapToKv(kv, hashlock, claimed),
                   <<"Only the designated recipient can claim this swap">>)
      ELSE Return(saveSwapToKv(kv, hashlock, claimed),
                  ClaimResponse(claimed, hashlock, secret, claimer))

claim(kv, t1, t2, hashlock, secret, claimer) ==
  LET swap == getSwapFromKv(kv, hashlock)
      claimed == ClaimedSwap(swap, secret, claimer, t2)
  IN  IF ~isValidHashlock(hashlock) THEN Throw(kv, <<"Invalid hashlock format">>)
      ELSE IF SecretMissing(secret) THEN Throw(kv, <<"Secret is required">>)
      ELSE IF ~isValidHashlock(secret)
        THEN Throw(kv, <<"Invalid secret format: must be 0x + 64 hex chars">>)
      ELSE IF SenderMissing(claimer) THEN Throw(kv, <<"Claimer address required">>)
      ELSE IF swap = nullObject THEN Throw(kv, <<"Swap not found">>)
      ELSE IF NotOpen(swap) THEN Throw(kv, <<"Swap is ", swap.status, ", cannot claim">>)
      ELSE IF ClaimExpired(t1, swap) THEN Throw(kv, <<"Swap has expired, cannot claim">>)
      ELSE IF ~SecretMatches(hashSecret(secret), hashlock)
        THEN Throw(kv, <<"Invalid secret: hash does not match hashlock">>)
      ELSE IF ClaimerNotRecipient(swap, claimer)
        THEN Throw(kv, <<"Only the designated recipient can claim this swap">>)
      ELSE Return(saveSwapToKv(kv, hashlock, claimed),
                  ClaimResponse(claimed, hashlock, secret, claimer))

\* variant: no timelock on the refund
RefundTooEarlyUnchecked(t, swap) == FALSE

\* variant: a refund at the expiration itself is refused
RefundTooEarlyOrAt(t, swap) == t <= swap.expiration

RefundTooEarly(t, swap) == t < swap.expiration

\* a % b of JavaScript: the sign of the dividend
JsRemainder(a, b) == IF a >= 0 THEN a % b ELSE 0 - ((0 - a) % b)

RefundTooEarlyError(remaining) ==
  <<"Cannot refund yet. Timelock expires in ", remaining \div 60, "m ", JsRemainder(remaining, 60), "s">>

RefunderNotSender(swap, refunder) == swap.sender # refunder

\* variant: a refund clears the amount of the record
RefundedSwapEmptied(swap, t) ==
  [f \in DOMAIN swap \cup {"refundedAt"} |->
     CASE f = "status" -> REFUNDED
       [] f = "refundedAt" -> t
       [] f = "amountMutez" -> 0
       [] OTHER -> swap[f]]

\* variant: refundedAt is not recorded
RefundedSwapUnstamped(swap, t) == [swap EXCEPT !.status = REFUNDED]

RefundedSwap(swap, t) ==
  [f \in DOMAIN swap \cup {"refundedAt"} |->
     CASE f = "status" -> REFUNDED
       [] f = "refundedAt" -> t
       [] OTHER -> swap[f]]

RefundResponse(swap, hashlock) ==
  Response(200,
           [success |-> TRUE, event |-> "SwapRefunded",
            data |-> [hashlock |-> hashlock, refundedTo |-> swap.sender,
                      amount |-> swap.amountXtz, amountMutez |-> swap.amountMutez]],
           toString(swap.amountMutez))

refund(kv, t1, t2, hashlock, refunder) ==
  LET swap == getSwapFromKv(kv, hashlock)
      refunded == RefundedSwap(swap, t2)
  IN  IF ~isValidHashlock(hashlock) THEN Throw(kv, <<"Invalid hashlock format">>)
      ELSE IF SenderMissing(refunder) THEN Throw(kv, <<"Refunder address required">>)
      ELSE IF swap = nullObject THEN Throw(kv, <<"Swap not found">>)
      ELSE IF NotOpen(swap) THEN Throw(kv, <<"Swap is ", swap.status, ", cannot refund">>)
      ELSE IF RefundTooEarly(t1, swap) THEN Throw(kv, RefundTooEarlyError(swap.expiration - t2))
      ELSE IF RefunderNotSender(swap, refunder)
        THEN Throw(kv, <<"Only the original sender can refund this swap">>)
      ELSE Return(saveSwapToKv(kv, hashlock, refunded), RefundResponse(refunded, hashlock))

\* { ...swap } without revealedSecret unless the swap is claimed
SafeSwap(swap) ==
  IF swap.status # CLAIMED THEN [f \in DOMAIN swap \ {"revealedSecret"} |-> swap[f]] ELSE swap

\* variant: a malformed hashlock is reported as a failure
getSwapOrFail(kv, hashlock) ==
  IF ~isValidHashlock(hashlock) THEN [success |-> FALSE, error |-> <<"Invalid hashlock format">>]
  ELSE IF getSwapFromKv(kv, hashlock) = nullObject THEN [found |-> FALSE, error |-> <<"Swap not found">>]
  ELSE [found |-> TRUE, swap |-> SafeSwap(getSwapFromKv(kv, hashlock))]

\* variant: a swap that is no longer open is not shown
getSwapWhileOpen(kv, hashlock) ==
  IF ~isValidHashlock(hashlock) THEN [found |-> FALSE, error |-> <<"Invalid hashlock format">>]
  ELSE IF getSwapFromKv(kv, hashlock) = nullObject \/ NotOpen(getSwapFromKv(kv, hashlock))
    THEN [found |-> FALSE, error |-> <<"Swap not found">>]
  ELSE [found |-> TRUE, swap |-> SafeSwap(getSwapFromKv(kv, hashlock))]

getSwap(kv, hashlock) ==
  IF ~isValidHashlock(hashlock) THEN [found |-> FALSE, error |-> <<"Invalid hashlock format">>]
  ELSE IF getSwapFromKv(kv, hashlock) = nullObject THEN [found |-> FALSE, error |-> <<"Swap not found">>]
  ELSE [found |-> TRUE, swap |-> SafeSwap(getSwapFromKv(kv, hashlock))]

\* for (const key of keys): the swaps of keys[from..to] that pass the filter, in
\* the order of the keys; the range is split in two halves
RECURSIVE ListLoop(_, _, _, _, _)
ListLoop(kv, keys, from, to, filterStatus) ==
  IF from > to THEN <<>>
  ELSE IF from = to
    THEN LET swap == getSwapFromKv(kv, keys[from])
         IN  IF swap # nullObject /\ (filterStatus = "" \/ swap.status = filterStatus)
             THEN <<SafeSwap(swap)>> ELSE <<>>
  ELSE LET middle == (from + to) \div 2
       IN  ListLoop(kv, keys, from, middle, filterStatus)
             \o ListLoop(kv, keys, middle + 1, to, filterStatus)

\* filterStatus "" stands for every falsy filter (null, undefined, '')
listSwaps(kv, filterStatus, limit) ==
  LET keys == getAllSwapKeys(kv, limit)
  IN  ListLoop(kv, keys, 1, Len(keys), filterStatus)

\* ------------------------------------------------------------ Jstz: the request handler

\* the later reads of now() within one call: the clock may have moved on
LaterReads(ms) == {ms} \cup (IF ms + TickMs <= StartMs + MaxClock * TickMs THEN {ms + TickMs} ELSE {})

\* request.headers.get('Referer') || 'anonymous'
Caller(req) == OrElse(req.Referer, anonymous)

\* variant: when no tez came with the request, the amount named in its body, in XTZ
ReceivedAmountOrBody(req) ==
  LET received == parseAmountMutez(JsString(OrElse(req.XJstzAmount, <<48>>)))
  IN  IF received = 0 /\ "amount" \in DOMAIN req /\ req.amount.type = "number"
      THEN (req.amount.halves * ONE_TEZ) \div 2 ELSE received

\* parseAmountMutez(request.headers.get('X-JSTZ-AMOUNT') || '0')
ReceivedAmount(req) == parseAmountMutez(JsString(OrElse(req.XJstzAmount, <<48>>)))

\* the catch block
ErrorResponse(error) == Response(400, [success |-> FALSE, error |-> error], null)

Route(kv, t1, t2, req) ==
  IF req.path = "/initiate"
    THEN initiate(kv, t1, t2, req.hashlock, req.recipient, req.expiration,
                  JsNumber(2 * ReceivedAmount(req)), Caller(req))
  ELSE IF req.path = "/claim" THEN claim(kv, t1, t2, req.hashlock, req.secret, Caller(req))
  ELSE refund(kv, t1, t2, req.hashlock, Caller(req))

\* the Response of the handler for a result of initiate, claim or refund
HandlerResponse(req, result) ==
  IF result.threw THEN ErrorResponse(result.error)
  ELSE IF req.path = "/initiate" THEN Response(200, result.value, null)
  ELSE result.value

\* a call that throws has read the clock once, except a refund before the
\* expiration, which reads it again for its message
ReadsClockOnce(result) == result.threw /\ result.error[1] # "Cannot refund yet. Timelock expires in "

\* the handler serves a POST to /initiate, /claim or /refund
Handle(req) ==
  /\ "jstz" \in deployed
  /\ request = NoRequest
  /\ \E first \in {Route(Kv, now(dateNow), now(dateNow), req)} :
     \E ms2 \in IF ReadsClockOnce(first) THEN {dateNow} ELSE LaterReads(dateNow) :
     \E result \in {IF ms2 = dateNow THEN first ELSE Route(Kv, now(dateNow), now(ms2), req)} :
     \E resp \in {HandlerResponse(req, result)} :
       /\ Kv' = result.kv
       /\ dateNow' = ms2
       /\ request' = req
       /\ response' = resp
       /\ issued' = IF resp.XJstzTransfer # null
                    THEN Append(issued, [key |-> slice(req.hashlock, 2), to |-> Caller(req),
                                          header |-> resp.XJstzTransfer])
                    ELSE issued
  /\ UNCHANGED <<fixed, etherlinkVars>>

PostInitiate ==
  \E h \in InitiateHashlocks, r \in RecipientInputs, e \in ExpirationInputs,
     a \in AmountHeaders, c \in Referers :
    Handle([path |-> "/initiate", Referer |-> c, XJstzAmount |-> a,
            hashlock |-> h, recipient |-> r, expiration |-> e])

PostClaim ==
  \E h \in HashlockInputs, s \in SecretInputs, c \in Referers :
    Handle([path |-> "/claim", Referer |-> c, XJstzAmount |-> null, hashlock |-> h, secret |-> s])

PostRefund ==
  \E h \in HashlockInputs, c \in Referers :
    Handle([path |-> "/refund", Referer |-> c, XJstzAmount |-> null, hashlock |-> h])

\* Math.min(parseInt(url.searchParams.get('limit') || body?.limit || MAX_SWAPS_LIST), MAX_SWAPS_LIST)
ListLimit(limit) ==
  LET parsed == IF OrElse(limit, null) = null THEN MAX_SWAPS_LIST ELSE ParseInt10(limit)
  IN  IF parsed = NaN THEN NaN ELSE IF parsed < MAX_SWAPS_LIST THEN parsed ELSE MAX_SWAPS_LIST

\* the handler serves a read: it answers 200 with the result and touches nothing
Read(req, result) ==
  /\ "jstz" \in deployed
  /\ request = NoRequest
  /\ request' = req
  /\ response' = Response(200, result, null)
  /\ UNCHANGED <<fixed, Kv, dateNow, issued, etherlinkVars>>

GetSwap ==
  \E h \in HashlockInputs, c \in Referers :
    Read([path |-> "/swap/", Referer |-> c, XJstzAmount |-> null, hashlock |-> h],
         getSwap(Kv, h))

ListSwaps ==
  \E status \in StatusInputs, limit \in LimitInputs :
    Read([path |-> "/swaps", Referer |-> null, XJstzAmount |-> null,
          status |-> status, limit |-> limit],
         listSwaps(Kv, status, ListLimit(limit)))

\* the runtime takes the response and makes the transfer its header asks for
Deliver ==
  /\ "jstz" \in deployed
  /\ request # NoRequest
  /\ request' = NoRequest
  /\ response' = NoResponse
  /\ UNCHANGED <<fixed, Kv, dateNow, issued, etherlinkVars>>

Tick ==
  /\ "jstz" \in deployed
  /\ request = NoRequest
  /\ dateNow + TickMs <= StartMs + MaxClock * TickMs
  /\ dateNow' = dateNow + TickMs
  /\ UNCHANGED <<fixed, Kv, request, response, issued, etherlinkVars>>

\* ------------------------------------------------------------ Etherlink: values

\* address(0), two externally owned accounts, and a contract account that has
\* no payable receive or fallback function, so that a call with value to it fails
ZeroAddress == "0x0000000000000000000000000000000000000000"
EthAlice == "0xA11CE00000000000000000000000000000000001"
EthBob == "0xB0B0000000000000000000000000000000000002"
NonPayable == "0xC0DE000000000000000000000000000000000003"

Senders == {EthAlice, EthBob, NonPayable}
EthRecipientInputs == {ZeroAddress, EthBob}
ValueInputs == {0, 1, 2}
EthExpirationInputs == 0..(MaxClock + 1)
EthSecretInputs == {SecretABytes, SecretBBytes, ShortSecretBytes}

HashLockA == EvmSha256(SecretABytes)
HashLockB == EvmSha256(SecretBBytes)
HashLockShort == EvmSha256(ShortSecretBytes)
\* the identifiers of the calls; swaps are initiated under the agreed one only
SwapIds == {agreed.evm, HashLockB}
InitiateIds == {agreed.evm}

\* bytes32(0)
ZeroBytes32 == Rep(0, 32)

\* a storage slot never written reads as zero
ZeroSwapDetails ==
  [recipient |-> ZeroAddress, sender |-> ZeroAddress, amount |-> 0, expiration |-> 0,
   hashLock |-> ZeroBytes32, status |-> OPEN]

\* swaps[swapId]
SwapDetails(sw, swapId) == IF swapId \in DOMAIN sw THEN sw[swapId] ELSE ZeroSwapDetails

NoTx == [fn |-> "none"]
NoReceipt == [status |-> "none"]

\* a call that reverts changes nothing and returns the value sent with it
Revert(error) == [reverted |-> TRUE, error |-> error]
\* a call that returns: the storage and balance it leaves, its events, the value it sent out
Commit(sw, bal, events, transfers) ==
  [reverted |-> FALSE, swaps |-> sw, balance |-> bal, events |-> events, transfers |-> transfers]

\* variant: the result of the call is not looked at
CallSucceedsUnchecked(to, amount, bal) == amount <= bal

\* (bool sent, ) = to.call{value: amount}("")
CallSucceeds(to, amount, bal) == to # NonPayable /\ amount <= bal

\* ------------------------------------------------------------ Etherlink: HTLC v2.0

\* variant: a resolved swap no longer counts as existing
_swapExistsWhileOpen(sw, swapId) ==
  SwapDetails(sw, swapId).sender # ZeroAddress /\ SwapDetails(sw, swapId).status = OPEN

_swapExists(sw, swapId) == SwapDetails(sw, swapId).sender # ZeroAddress

ExpirationNotFuture(time, timestamp) == time <= timestamp

initiateSwap(sw, bal, timestamp, msgSender, msgValue, recipient, hashLock, expiration) ==
  IF ExpirationNotFuture(expiration, timestamp) THEN Revert("ExpirationMustBeInFuture")
  ELSE IF msgValue = 0 THEN Revert("AmountMustBeGreaterThanZero")
  ELSE IF _swapExists(sw, hashLock) THEN Revert("SwapAlreadyExists")
  ELSE Commit(
         [id \in DOMAIN sw \cup {hashLock} |->
            IF id = hashLock
            THEN [recipient |-> recipient, sender |-> msgSender, amount |-> msgValue,
                  expiration |-> expiration, hashLock |-> hashLock, status |-> OPEN]
            ELSE sw[id]],
         bal + msgValue,
         << [event |-> "SwapInitiated", swapId |-> hashLock, sender |-> msgSender,
             recipient |-> recipient, amount |-> msgValue, hashLock |-> hashLock,
             expiration |-> expiration] >>,
         <<>>)

SwapHasExpired(timestamp, swap) == timestamp >= swap.expiration

SecretLengthIncorrect(secret) == Len(secret) # 32

HashLockIncorrect(secret, swap) == EvmSha256(secret) # swap.hashLock

ClaimerUnauthorized(swap, msgSender) == swap.recipient # ZeroAddress /\ msgSender # swap.recipient

ClaimRecipient(swap, msgSender) == IF swap.recipient = ZeroAddress THEN msgSender ELSE swap.recipient

\* variant: the length of the secret is checked before the expiration
claimSwapLengthFirst(sw, bal, timestamp, msgSender, swapId, secret) ==
  LET swap == SwapDetails(sw, swapId)
      claimRecipient == ClaimRecipient(swap, msgSender)
  IN  IF ~_swapExists(sw, swapId) THEN Revert("SwapDoesNotExist")
      ELSE IF swap.status # OPEN THEN Revert("SwapNotOpen")
      ELSE IF SecretLengthIncorrect(secret) THEN Revert("IncorrectSecretLength")
      ELSE IF SwapHasExpired(timestamp, swap) THEN Revert("SwapExpired")
      ELSE IF HashLockIncorrect(secret, swap) THEN Revert("IncorrectHashLock")
      ELSE IF ClaimerUnauthorized(swap, msgSender) THEN Revert("UnauthorizedClaimer")
      ELSE IF ~CallSucceeds(claimRecipient, swap.amount, bal) THEN Revert("TransferFailed")
      ELSE Commit(
             [sw EXCEPT ![swapId] = [swap EXCEPT !.status = CLAIMED, !.recipient = claimRecipient]],
             bal - swap.amount,
             << [event |-> "SwapClaimed", swapId |-> swapId, claimer |-> msgSender,
                 recipient |-> claimRecipient, secret |-> secret] >>,
             << [swapId |-> swapId, to |-> claimRecipient, amount |-> swap.amount] >>)

claimSwap(sw, bal, timestamp, msgSender, swapId, secret) ==
  LET swap == SwapDetails(sw, swapId)
      claimRecipient == ClaimRecipient(swap, msgSender)
  IN  IF ~_swapExists(sw, swapId) THEN Revert("SwapDoesNotExist")
      ELSE IF swap.status # OPEN THEN Revert("SwapNotOpen")
      ELSE IF SwapHasExpired(timestamp, swap) THEN Revert("SwapExpired")
      ELSE IF SecretLengthIncorrect(secret) THEN Revert("IncorrectSecretLength")
      ELSE IF HashLockIncorrect(secret, swap) THEN Revert("IncorrectHashLock")
      ELSE IF ClaimerUnauthorized(swap, msgSender) THEN Revert("UnauthorizedClaimer")
      ELSE IF ~CallSucceeds(claimRecipient, swap.amount, bal) THEN Revert("TransferFailed")
      ELSE Commit(
             [sw EXCEPT ![swapId] = [swap EXCEPT !.status = CLAIMED, !.recipient = claimRecipient]],
             bal - swap.amount,
             << [event |-> "SwapClaimed", swapId |-> swapId, claimer |-> msgSender,
                 recipient |-> claimRecipient, secret |-> secret] >>,
             << [swapId |-> swapId, to |-> claimRecipient, amount |-> swap.amount] >>)

\* variant: a refund in the block of the expiration is refused
SwapNotExpiredOrAt(timestamp, swap) == timestamp <= swap.expiration

SwapNotExpired(timestamp, swap) == timestamp < swap.expiration

NotTheSender(swap, msgSender) == msgSender # swap.sender

refundSwap(sw, bal, timestamp, msgSender, swapId) ==
  LET swap == SwapDetails(sw, swapId)
  IN  IF ~_swapExists(sw, swapId) THEN Revert("SwapDoesNotExist")
      ELSE IF swap.status # OPEN THEN Revert("SwapNotOpen")
      ELSE IF SwapNotExpired(timestamp, swap) THEN Revert("SwapNotExpiredYet")
      ELSE IF NotTheSender(swap, msgSender) THEN Revert("OnlySenderCanRefund")
      ELSE IF ~CallSucceeds(swap.sender, swap.amount, bal) THEN Revert("TransferFailed")
      ELSE Commit(
             [sw EXCEPT ![swapId] = [swap EXCEPT !.status = REFUNDED]],
             bal - swap.amount,
             << [event |-> "SwapRefunded", swapId |-> swapId, sender |-> swap.sender,
                 amount |-> swap.amount] >>,
             << [swapId |-> swapId, to |-> swap.sender, amount |-> swap.amount] >>)

\* ------------------------------------------------------------ Etherlink: transactions

\* the receipt of a call
Receipt(result) ==
  IF result.reverted THEN [status |-> "reverted", error |-> result.error]
  ELSE [status |-> "success", events |-> result.events, transfers |-> result.transfers]

\* a transaction runs a call to its end: all of its effects, or none
Execute(contract, call, result) ==
  /\ contract \in deployed
  /\ tx = NoTx
  /\ tx' = call
  /\ receipt' = Receipt(result)
  /\ swaps' = IF result.reverted THEN swaps ELSE result.swaps
  /\ balance' = IF result.reverted THEN balance ELSE result.balance
  /\ paid' = IF result.reverted THEN paid ELSE paid \o result.transfers
  /\ UNCHANGED <<fixed, contractOwner, blockTimestamp, jstzVars>>

InitiateSwap ==
  \E h \in InitiateIds, s \in Senders, v \in ValueInputs, r \in EthRecipientInputs,
     e \in EthExpirationInputs :
  \E result \in {initiateSwap(swaps, balance, blockTimestamp, s, v, r, h, e)} :
    Execute("etherlink",
            [fn |-> "initiateSwap", sender |-> s, value |-> v, recipient |-> r,
             hashLock |-> h, expiration |-> e],
            result)

ClaimSwap ==
  \E id \in SwapIds, s \in Senders, secret \in EthSecretInputs :
  \E result \in {claimSwap(swaps, balance, blockTimestamp, s, id, secret)} :
    Execute("etherlink",
            [fn |-> "claimSwap", sender |-> s, value |-> 0, swapId |-> id, secret |-> secret],
            result)

RefundSwap ==
  \E id \in SwapIds, s \in Senders :
  \E result \in {refundSwap(swaps, balance, blockTimestamp, s, id)} :
    Execute("etherlink", [fn |-> "refundSwap", sender |-> s, value |-> 0, swapId |-> id], result)

\* the transaction is confirmed
Confirm ==
  /\ deployed \cap {"etherlink", "legacy"} # {}
  /\ tx # NoTx
  /\ tx' = NoTx
  /\ receipt' = NoReceipt
  /\ UNCHANGED <<fixed, swaps, balance, contractOwner, blockTimestamp, paid, jstzVars>>

\* the next block carries a later timestamp
NextBlock ==
  /\ deployed \cap {"etherlink", "legacy"} # {}
  /\ tx = NoTx
  /\ blockTimestamp < MaxClock
  /\ blockTimestamp' = blockTimestamp + 1
  /\ UNCHANGED <<fixed, swaps, balance, contractOwner, tx, receipt, paid, jstzVars>>

\* ------------------------------------------------------------ Etherlink: contracts/HTLC.sol

EXPIRED == "EXPIRED"

\* the account that deploys HTLC.sol
Deployer == EthAlice

WithdrawInputs == {1, 2}

\* claimSwap of HTLC.sol
claimSwapLegacy(sw, bal, msgSender, swapId, secret) ==
  LET swap == SwapDetails(sw, swapId)
      claimRecipient == ClaimRecipient(swap, msgSender)
  IN  IF ~_swapExists(sw, swapId) THEN Revert("SwapDoesNotExist")
      ELSE IF swap.status # OPEN THEN Revert("SwapNotOpen")
      ELSE IF HashLockIncorrect(secret, swap) THEN Revert("IncorrectHashLock")
      ELSE IF ~CallSucceeds(claimRecipient, swap.amount, bal) THEN Revert("TransferFailed")
      ELSE Commit(
             [sw EXCEPT ![swapId] = [swap EXCEPT !.status = CLAIMED, !.recipient = claimRecipient]],
             bal - swap.amount,
             << [event |-> "SwapClaimed", swapId |-> swapId, claimer |-> msgSender,
                 secret |-> secret] >>,
             << [swapId |-> swapId, to |-> claimRecipient, amount |-> swap.amount] >>)

\* refundSwap of HTLC.sol
refundSwapLegacy(sw, bal, timestamp, msgSender, swapId) ==
  LET swap == SwapDetails(sw, swapId)
  IN  IF ~_swapExists(sw, swapId) THEN Revert("SwapDoesNotExist")
      ELSE IF swap.status # OPEN THEN Revert("SwapNotOpen")
      ELSE IF SwapNotExpired(timestamp, swap) THEN Revert("SwapNotExpiredYet")
      ELSE IF NotTheSender(swap, msgSender) THEN Revert("OnlySenderCanRefund")
      ELSE IF ~CallSucceeds(swap.sender, swap.amount, bal) THEN Revert("TransferFailed")
      ELSE Commit(
             [sw EXCEPT ![swapId] = [swap EXCEPT !.status = EXPIRED]],
             bal - swap.amount,
             << [event |-> "SwapRefunded", swapId |-> swapId, sender |-> swap.sender,
                 amount |-> swap.amount] >>,
             << [swapId |-> swapId, to |-> swap.sender, amount |-> swap.amount] >>)

emergencyWithdraw(sw, bal, owner, msgSender, amount) ==
  IF msgSender # owner THEN Revert("CallerNotOwner")
  ELSE IF ~CallSucceeds(owner, amount, bal) THEN Revert("TransferFailed")
  ELSE Commit(sw, bal - amount, <<>>, << [swapId |-> <<>>, to |-> owner, amount |-> amount] >>)

LegacyInitiateSwap ==
  \E h \in InitiateIds, s \in Senders, v \in ValueInputs, r \in EthRecipientInputs,
     e \in EthExpirationInputs :
  \E result \in {initiateSwap(swaps, balance, blockTimestamp, s, v, r, h, e)} :
    Execute("legacy",
            [fn |-> "initiateSwap", sender |-> s, value |-> v, recipient |-> r,
             hashLock |-> h, expiration |-> e],
            result)

LegacyClaimSwap ==
  \E id \in SwapIds, s \in Senders, secret \in EthSecretInputs :
  \E result \in {claimSwapLegacy(swaps, balance, s, id, secret)} :
    Execute("legacy",
            [fn |-> "claimSwap", sender |-> s, value |-> 0, swapId |-> id, secret |-> secret],
            result)

LegacyRefundSwap ==
  \E id \in SwapIds, s \in Senders :
  \E result \in {refundSwapLegacy(swaps, balance, blockTimestamp, s, id)} :
    Execute("legacy", [fn |-> "refundSwap", sender |-> s, value |-> 0, swapId |-> id], result)

EmergencyWithdraw ==
  \E s \in Senders, amount \in WithdrawInputs :
  \E result \in {emergencyWithdraw(swaps, balance, contractOwner, s, amount)} :
    Execute("legacy", [fn |-> "emergencyWithdraw", sender |-> s, value |-> 0, amount |-> amount],
            result)

\* ------------------------------------------------------------ specifications

Start(implementations, owner) ==
  /\ poll = NoPoll
  /\ digests = [jstz |-> [message \in HashedMessages |-> sha256(message)],
                evm |-> [bytes \in HashedBytes |-> Sha256Bytes(bytes)]]
  /\ deployed \in implementations
  /\ agreed \in {[jstz |-> HashlockA, evm |-> HashLockA],
                 [jstz |-> HashlockShort, evm |-> HashLockShort]}
  /\ Kv = EmptyKv
  /\ dateNow = StartMs
  /\ request = NoRequest
  /\ response = NoResponse
  /\ issued = <<>>
  /\ swaps = [id \in {} |-> ZeroSwapDetails]
  /\ balance = 0
  /\ contractOwner = owner
  /\ blockTimestamp = 0
  /\ tx = NoTx
  /\ receipt = NoReceipt
  /\ paid = <<>>

\* the Jstz smart function, or the Etherlink contract HTLC v2.0
Init == Start({{"jstz"}, {"etherlink"}}, ZeroAddress)

Next ==
  \/ PostInitiate
  \/ PostClaim
  \/ PostRefund
  \/ GetSwap
  \/ ListSwaps
  \/ Deliver
  \/ Tick
  \/ InitiateSwap
  \/ ClaimSwap
  \/ RefundSwap
  \/ Confirm
  \/ NextBlock

Spec == Init /\ [][Next]_vars

\* the Etherlink contract of contracts/HTLC.sol, deployed by Deployer
InitLegacy == Start({{"legacy"}}, Deployer)

NextLegacy ==
  \/ LegacyInitiateSwap
  \/ LegacyClaimSwap
  \/ LegacyRefundSwap
  \/ EmergencyWithdraw
  \/ Confirm
  \/ NextBlock

SpecLegacy == InitLegacy /\ [][NextLegacy]_vars


\* the store after n swaps were initiated at the start, each by Alice with the
\* minimum amount, no recipient, and a hashlock of its own: what initiate has
\* saved (saveSwapToKv) and indexed (addSwapKey)
StoreAfter(n) ==
  IF n = 0 THEN EmptyKv
  ELSE LET swapOf(i) == NewSwap(NthHashlock(i), Alice, undefined, MIN_AMOUNT_MUTEZ,
                                MaxClock + 1, now(StartMs))
           index(key) == 256 * HexVal(key[62]) + 16 * HexVal(key[63]) + HexVal(key[64])
       IN  [key \in {slice(NthHashlock(i), 2) : i \in 1..n} \cup {swap_keys} |->
              IF key = swap_keys THEN JSONstringify([i \in 1..n |-> NthHashlock(i)])
              ELSE JSONstringify(swapOf(index(key)))]

\* the Jstz smart function with a store that holds many swaps
InitList ==
  /\ poll = NoPoll
  /\ digests = [jstz |-> [message \in HashedMessages |-> sha256(message)],
                evm |-> [bytes \in HashedBytes |-> Sha256Bytes(bytes)]]
  /\ deployed = {"jstz"}
  /\ agreed = [jstz |-> HashlockA, evm |-> HashLockA]
  /\ Kv \in {StoreAfter(n) : n \in StoreSizes}
  /\ dateNow = StartMs
  /\ request = NoRequest
  /\ response = NoResponse
  /\ issued = <<>>
  /\ swaps = [id \in {} |-> ZeroSwapDetails]
  /\ balance = 0
  /\ contractOwner = ZeroAddress
  /\ blockTimestamp = 0
  /\ tx = NoTx
  /\ receipt = NoReceipt
  /\ paid = <<>>

NextList ==
  \/ GetSwap
  \/ ListSwaps
  \/ Deliver

SpecList == InitList /\ [][NextList]_vars

\* ------------------------------------------------------------ the two-sided swap
\* SECURITY.md 3.1: Alice locks on Jstz for Bob, Bob locks on Etherlink for
\* Alice with an earlier expiration, Alice claims on Etherlink and so reveals
\* the secret, Bob claims on Jstz with it.  Either may instead wait, or ask for
\* a refund at any time.

\* 2. initiate(H, bob_addr, exp1)
AliceLocks ==
  /\ SwapKeys(Kv) = {}
  /\ Handle([path |-> "/initiate", Referer |-> Alice, XJstzAmount |-> <<49, 48, 48, 48>>,
             hashlock |-> agreed.jstz, recipient |-> Bob,
             expiration |-> JsNumber(2 * InitiatorExpiration)])

\* 3. initiateSwap(H, alice_addr, exp2), once Alice's swap is there
BobLocks ==
  /\ SwapKeys(Kv) # {}
  /\ DOMAIN swaps = {}
  /\ \E result \in {initiateSwap(swaps, balance, blockTimestamp, EthBob, 1, EthAlice,
                                 agreed.evm, ResponderExpiration)} :
       Execute("etherlink",
               [fn |-> "initiateSwap", sender |-> EthBob, value |-> 1, recipient |-> EthAlice,
                hashLock |-> agreed.evm, expiration |-> ResponderExpiration],
               result)

\* 4. claimSwap(H, S) on Etherlink
AliceClaims ==
  \E result \in {claimSwap(swaps, balance, blockTimestamp, EthAlice, agreed.evm, SecretABytes)} :
    Execute("etherlink",
            [fn |-> "claimSwap", sender |-> EthAlice, value |-> 0, swapId |-> agreed.evm,
             secret |-> SecretABytes],
            result)

\* the secret is public once the event SwapClaimed carries it
SecretRevealed == \E id \in DOMAIN swaps : swaps[id].status = CLAIMED

\* 5. claim(H, S) on Jstz, with the secret revealed in step 4
BobClaims ==
  /\ SecretRevealed
  /\ Handle([path |-> "/claim", Referer |-> Bob, XJstzAmount |-> null,
             hashlock |-> agreed.jstz, secret |-> SecretA])

AliceRefunds ==
  Handle([path |-> "/refund", Referer |-> Alice, XJstzAmount |-> null, hashlock |-> agreed.jstz])

BobRefunds ==
  \E result \in {refundSwap(swaps, balance, blockTimestamp, EthBob, agreed.evm)} :
    Execute("etherlink",
            [fn |-> "refundSwap", sender |-> EthBob, value |-> 0, swapId |-> agreed.evm],
            result)

\* Date.now() moves on
JstzTimePasses ==
  /\ request = NoRequest
  /\ now(dateNow) < MaxSwapClock
  /\ dateNow' = dateNow + TickMs
  /\ UNCHANGED <<fixed, Kv, request, response, issued, etherlinkVars>>

\* a block with a later timestamp
EtherlinkTimePasses ==
  /\ tx = NoTx
  /\ blockTimestamp < MaxSwapClock
  /\ blockTimestamp' = blockTimestamp + 1
  /\ UNCHANGED <<fixed, swaps, balance, contractOwner, tx, receipt, paid, jstzVars>>

\* both implementations, and the hashlock of Alice's 32-byte secret
InitSwap ==
  /\ Start({{"jstz", "etherlink"}}, ZeroAddress)
  /\ agreed = [jstz |-> HashlockA, evm |-> HashLockA]

NextSwap ==
  \/ AliceLocks
  \/ BobLocks
  \/ AliceClaims
  \/ BobClaims
  \/ AliceRefunds
  \/ BobRefunds
  \/ Deliver
  \/ Confirm
  \/ JstzTimePasses
  \/ EtherlinkTimePasses

SpecSwap == InitSwap /\ [][NextSwap]_vars

\* ------------------------------------------------------------ refunds, with fairness

\* a contract that takes no value locks on Etherlink
ContractLocks ==
  /\ DOMAIN swaps = {}
  /\ \E result \in {initiateSwap(swaps, balance, blockTimestamp, NonPayable, 1, EthAlice,
                                 agreed.evm, ResponderExpiration)} :
       Execute("etherlink",
               [fn |-> "initiateSwap", sender |-> NonPayable, value |-> 1, recipient |-> EthAlice,
                hashLock |-> agreed.evm, expiration |-> ResponderExpiration],
               result)

\* and asks for its refund
ContractRefunds ==
  \E result \in {refundSwap(swaps, balance, blockTimestamp, NonPayable, agreed.evm)} :
    Execute("etherlink",
            [fn |-> "refundSwap", sender |-> NonPayable, value |-> 0, swapId |-> agreed.evm],
            result)

NextRefund ==
  \/ NextSwap
  \/ ContractLocks
  \/ ContractRefunds

\* the handler and the transaction end; both clocks go on whatever is served;
\* each sender keeps asking for its refund
FairRefund ==
  /\ WF_vars(Deliver)
  /\ WF_vars(Confirm)
  /\ SF_vars(JstzTimePasses)
  /\ SF_vars(EtherlinkTimePasses)
  /\ SF_vars(AliceRefunds)
  /\ SF_vars(BobRefunds)
  /\ SF_vars(ContractRefunds)

SpecRefund == InitSwap /\ [][NextRefund]_vars /\ FairRefund

\* ------------------------------------------------------------ a growing store

\* the swaps created so far under the hashlocks NthHashlock(1), NthHashlock(2), ...
Created(kv) == Cardinality(SwapKeys(kv) \ {slice(agreed.jstz, 2)})

\* the number of those the store started with
StartedWith(kv) == CHOOSE n \in IndexSizes : Created(kv) - n \in 0..MaxCreated

\* POST /initiate by Alice, without a recipient, for the next second: under the
\* next hashlock, under the agreed one, or once more under the latest
InitiateNext ==
  \E h \in {NthHashlock(Created(Kv) + 1), agreed.jstz,
            NthHashlock(IF Created(Kv) = 0 THEN 1 ELSE Created(Kv))} :
    /\ h = NthHashlock(Created(Kv) + 1) => Created(Kv) - StartedWith(Kv) < MaxCreated
    /\ Handle([path |-> "/initiate", Referer |-> Alice, XJstzAmount |-> <<49, 48, 48, 48>>,
               hashlock |-> h, recipient |-> undefined, expiration |-> JsNumber(3)])

\* POST /claim by Bob with the secret of the agreed hashlock
ClaimAgreed ==
  Handle([path |-> "/claim", Referer |-> Bob, XJstzAmount |-> null,
          hashlock |-> agreed.jstz, secret |-> SecretA])

\* POST /refund by Alice, of the latest swap or of the agreed one
RefundLatest ==
  \E h \in {NthHashlock(Created(Kv)), agreed.jstz} :
    Handle([path |-> "/refund", Referer |-> Alice, XJstzAmount |-> null, hashlock |-> h])

\* GET /swap/ of the first swap, the latest, the next and the agreed one
GetNth ==
  \E h \in {NthHashlock(1), NthHashlock(Created(Kv)), NthHashlock(Created(Kv) + 1), agreed.jstz} :
    Read([path |-> "/swap/", Referer |-> null, XJstzAmount |-> null, hashlock |-> h],
         getSwap(Kv, h))

\* the Jstz smart function with an empty store or one that holds nearly
\* KEEP_LAST_KEYS swaps
InitIndex ==
  /\ poll = NoPoll
  /\ digests = [jstz |-> [message \in HashedMessages |-> sha256(message)],
                evm |-> [bytes \in HashedBytes |-> Sha256Bytes(bytes)]]
  /\ deployed = {"jstz"}
  /\ agreed = [jstz |-> HashlockA, evm |-> HashLockA]
  /\ Kv \in {StoreAfter(n) : n \in IndexSizes}
  /\ dateNow = StartMs
  /\ request = NoRequest
  /\ response = NoResponse
  /\ issued = <<>>
  /\ swaps = [id \in {} |-> ZeroSwapDetails]
  /\ balance = 0
  /\ contractOwner = ZeroAddress
  /\ blockTimestamp = 0
  /\ tx = NoTx
  /\ receipt = NoReceipt
  /\ paid = <<>>

NextIndex ==
  \/ InitiateNext
  \/ ClaimAgreed
  \/ RefundLatest
  \/ GetNth
  \/ Deliver
  \/ Tick

SpecIndex == InitIndex /\ [][NextIndex]_vars

\* ------------------------------------------------------------ the digest alone

\* the strings sha256 is called with for a byte string: '0x' + its hex digits in
\* lower and in upper case, and the text it encodes if it encodes one
StringsOf(bytes) ==
  {HexString(bytes), <<48, 120>> \o toUpperCase(HexOfBytes(bytes))}
    \cup (IF bytes \in TextInputs THEN {TextOf(bytes)} ELSE {})

\* the byte string this run hashes
Hashed == CHOOSE bytes \in DOMAIN digests.evm : TRUE

\* sha256(message) called with a string
HashString ==
  \E message \in StringsOf(Hashed) :
    /\ request = NoRequest
    /\ request' = [path |-> "sha256", typeof |-> "string", message |-> message]
    /\ response' = [status |-> 200, body |-> hashSecret(message)]
    /\ UNCHANGED <<fixed, Kv, dateNow, issued, etherlinkVars>>

\* sha256(message) called with an array of bytes
HashArray ==
  /\ request = NoRequest
  /\ request' = [path |-> "sha256", typeof |-> "object", message |-> Hashed]
  /\ response' = [status |-> 200, body |-> digests.array[Hashed]]
  /\ UNCHANGED <<fixed, Kv, dateNow, issued, etherlinkVars>>

\* sha256(bytes) of the EVM
HashEvm ==
  /\ tx = NoTx
  /\ tx' = [fn |-> "sha256", bytes |-> Hashed]
  /\ receipt' = [status |-> "returned", output |-> EvmSha256(Hashed)]
  /\ UNCHANGED <<fixed, swaps, balance, contractOwner, blockTimestamp, paid, jstzVars>>

\* both environments, hashing one byte string
InitDigest ==
  /\ \E bytes \in DigestInputs :
       digests = [jstz |-> [message \in StringsOf(bytes) |-> sha256(message)],
                  array |-> [message \in {bytes} |-> sha256OfArray(message)],
                  evm |-> [message \in {bytes} |-> Sha256Bytes(message)]]
  /\ poll = NoPoll
  /\ deployed = {"jstz", "etherlink"}
  /\ agreed = [jstz |-> <<>>, evm |-> <<>>]
  /\ Kv = EmptyKv
  /\ dateNow = StartMs
  /\ request = NoRequest
  /\ response = NoResponse
  /\ issued = <<>>
  /\ swaps = [id \in {} |-> ZeroSwapDetails]
  /\ balance = 0
  /\ contractOwner = ZeroAddress
  /\ blockTimestamp = 0
  /\ tx = NoTx
  /\ receipt = NoReceipt
  /\ paid = <<>>

NextDigest ==
  \/ HashString
  \/ HashArray
  \/ HashEvm
  \/ Deliver
  \/ Confirm

SpecDigest == InitDigest /\ [][NextDigest]_vars

\* ------------------------------------------------------------ the same calls on both chains

\* a third Jstz address: tz1CCC...
Carol == <<116, 122, 49>> \o Rep(67, 33)

\* an account on each chain for each party: two externally owned ones, and one
\* that is a contract without a payable function on Etherlink
Parties ==
  {[jstz |-> Alice, evm |-> EthAlice], [jstz |-> Bob, evm |-> EthBob],
   [jstz |-> Carol, evm |-> NonPayable]}
\* no recipient, or Bob
BothRecipients == {[jstz |-> undefined, evm |-> ZeroAddress], [jstz |-> Bob, evm |-> EthBob]}
BothSecrets ==
  {[jstz |-> SecretA, evm |-> SecretABytes], [jstz |-> SecretB, evm |-> SecretBBytes],
   [jstz |-> ShortSecret, evm |-> ShortSecretBytes]}
BothHashlocks == {agreed, [jstz |-> HashlockB, evm |-> HashLockB]}
\* the amounts sent, in the smallest unit of each chain
BothAmounts == {0, MIN_AMOUNT_MUTEZ - 1, MIN_AMOUNT_MUTEZ}

\* one call made on both chains at the same clock value
SameCall(req, call, result) ==
  /\ request = NoRequest
  /\ tx = NoTx
  /\ \E served \in {Route(Kv, now(dateNow), now(dateNow), req)} :
     \E resp \in {HandlerResponse(req, served)} :
       /\ Kv' = served.kv
       /\ request' = req
       /\ response' = resp
       /\ issued' = IF resp.XJstzTransfer # null
                    THEN Append(issued, [key |-> slice(req.hashlock, 2), to |-> Caller(req),
                                          header |-> resp.XJstzTransfer])
                    ELSE issued
  /\ tx' = call
  /\ receipt' = Receipt(result)
  /\ swaps' = IF result.reverted THEN swaps ELSE result.swaps
  /\ balance' = IF result.reverted THEN balance ELSE result.balance
  /\ paid' = IF result.reverted THEN paid ELSE paid \o result.transfers
  /\ UNCHANGED <<fixed, dateNow, contractOwner, blockTimestamp>>

BothInitiate ==
  \E c \in Parties, v \in BothAmounts, r \in BothRecipients, e \in 0..(MaxClock + 1) :
  \E result \in {initiateSwap(swaps, balance, blockTimestamp, c.evm, v, r.evm, agreed.evm, e)} :
    SameCall([path |-> "/initiate", Referer |-> c.jstz, XJstzAmount |-> toString(v),
              hashlock |-> agreed.jstz, recipient |-> r.jstz, expiration |-> JsNumber(2 * e)],
             [fn |-> "initiateSwap", sender |-> c.evm, value |-> v, recipient |-> r.evm,
              hashLock |-> agreed.evm, expiration |-> e],
             result)

BothClaim ==
  \E h \in BothHashlocks, c \in Parties, s \in BothSecrets :
  \E result \in {claimSwap(swaps, balance, blockTimestamp, c.evm, h.evm, s.evm)} :
    SameCall([path |-> "/claim", Referer |-> c.jstz, XJstzAmount |-> null,
              hashlock |-> h.jstz, secret |-> s.jstz],
             [fn |-> "claimSwap", sender |-> c.evm, value |-> 0, swapId |-> h.evm,
              secret |-> s.evm],
             result)

BothRefund ==
  \E h \in BothHashlocks, c \in Parties :
  \E result \in {refundSwap(swaps, balance, blockTimestamp, c.evm, h.evm)} :
    SameCall([path |-> "/refund", Referer |-> c.jstz, XJstzAmount |-> null, hashlock |-> h.jstz],
             [fn |-> "refundSwap", sender |-> c.evm, value |-> 0, swapId |-> h.evm],
             result)

\* both calls have returned
BothReturn ==
  /\ request # NoRequest
  /\ tx # NoTx
  /\ request' = NoRequest
  /\ response' = NoResponse
  /\ tx' = NoTx
  /\ receipt' = NoReceipt
  /\ UNCHANGED <<fixed, Kv, dateNow, issued, swaps, balance, contractOwner, blockTimestamp, paid>>

\* a second passes on both chains
BothTick ==
  /\ request = NoRequest
  /\ tx = NoTx
  /\ blockTimestamp < MaxClock
  /\ dateNow' = dateNow + TickMs
  /\ blockTimestamp' = blockTimestamp + 1
  /\ UNCHANGED <<fixed, Kv, request, response, issued, swaps, balance, contractOwner, tx, receipt, paid>>

\* the Jstz smart function and the Etherlink contract HTLC v2.0, called together
InitBoth == Start({{"jstz", "etherlink"}}, ZeroAddress)

NextBoth ==
  \/ BothInitiate
  \/ BothClaim
  \/ BothRefund
  \/ BothReturn
  \/ BothTick

SpecBoth == InitBoth /\ [][NextBoth]_vars

\* ------------------------------------------------------------ a receiver that calls back

\* a contract account whose receive function calls the HTLC contract again
Reentrant == "0xBAD0000000000000000000000000000000000004"

\* the functions the receiver calls back
Callbacks == {"claimSwap", "refundSwap"}

\* variant: the status is written once the transfer has returned
StorageAfterTransfer(before, result) == before

\* the storage the receiver finds while the transfer is in progress: status and
\* recipient are written before the call
StorageAtTransfer(before, result) == result.swaps

\* claimSwap or refundSwap of the deployed contract, called by the receiver
CallBy(contract, sw, bal, timestamp, fn, swapId, secret) ==
  IF contract = "etherlink"
    THEN IF fn = "claimSwap" THEN claimSwap(sw, bal, timestamp, Reentrant, swapId, secret)
         ELSE refundSwap(sw, bal, timestamp, Reentrant, swapId)
  ELSE IF fn = "claimSwap" THEN claimSwapLegacy(sw, bal, Reentrant, swapId, secret)
       ELSE refundSwapLegacy(sw, bal, timestamp, Reentrant, swapId)

\* the call as a whole: a nested call that reverts either makes the transfer
\* fail or is caught by the receiver; one that returns adds its effects
Reentered(outer, nested, bubbles) ==
  IF nested.reverted
    THEN IF bubbles THEN Revert("TransferFailed") ELSE outer
  ELSE Commit(nested.swaps, nested.balance, nested.events \o outer.events,
              outer.transfers \o nested.transfers)

ReentryReceipt(result, nested) ==
  [f \in DOMAIN Receipt(result) \cup {"nested"} |->
     IF f = "nested" THEN Receipt(nested) ELSE Receipt(result)[f]]

\* the receiver claims or refunds a swap that pays it and, within the transfer,
\* calls claimSwap or refundSwap for the same swap
Reenter ==
  \E contract \in deployed \cap {"etherlink", "legacy"}, id \in SwapIds,
     secret \in {SecretABytes, SecretBBytes},
     fn \in Callbacks, callback \in Callbacks, bubbles \in BOOLEAN :
  \E outer \in {CallBy(contract, swaps, balance, blockTimestamp, fn, id, secret)} :
    /\ ~outer.reverted
    /\ \E nested \in {CallBy(contract, StorageAtTransfer(swaps, outer), outer.balance,
                             blockTimestamp, callback, id, secret)} :
       \E result \in {Reentered(outer, nested, bubbles)} :
         /\ tx = NoTx
         /\ tx' = [fn |-> fn, sender |-> Reentrant, value |-> 0, swapId |-> id,
                   secret |-> secret, callback |-> callback]
         /\ receipt' = ReentryReceipt(result, nested)
         /\ swaps' = IF result.reverted THEN swaps ELSE result.swaps
         /\ balance' = IF result.reverted THEN balance ELSE result.balance
         /\ paid' = IF result.reverted THEN paid ELSE paid \o result.transfers
         /\ UNCHANGED <<fixed, contractOwner, blockTimestamp, jstzVars>>

\* a swap of one unit is locked, by the receiver or for it
Lock ==
  \E contract \in deployed \cap {"etherlink", "legacy"}, id \in SwapIds,
     s \in {EthAlice, Reentrant},
     r \in {ZeroAddress, Reentrant}, e \in 1..(MaxClock + 1) :
  \E result \in {initiateSwap(swaps, balance, blockTimestamp, s, 1, r, id, e)} :
    Execute(contract,
            [fn |-> "initiateSwap", sender |-> s, value |-> 1, recipient |-> r,
             hashLock |-> id, expiration |-> e],
            result)

\* either Etherlink contract, with swaps under two hashlocks
InitReentry == Start({{"etherlink"}, {"legacy"}}, Deployer)

NextReentry ==
  \/ Lock
  \/ Reenter
  \/ Confirm
  \/ NextBlock

SpecReentry == InitReentry /\ [][NextReentry]_vars

\* ------------------------------------------------------------ racing Jstz requests

\* variant: the handler works on the store as it was when the request arrived
StoreAtArrival(atArrival, atResume) == atArrival

\* the store the handler reads and writes: its only await, request.text(),
\* comes before the routing, so it is the store at the time the handler resumes
StoreRead(atArrival, atResume) == atResume

\* the requests that race: one initiate, claims with the secret by two callers,
\* refunds by the sender and by another caller
RaceRequests ==
  {[path |-> "/initiate", Referer |-> Alice, XJstzAmount |-> <<49, 48, 48, 48>>,
    hashlock |-> agreed.jstz, recipient |-> undefined, expiration |-> JsNumber(2)]}
    \cup {[path |-> "/claim", Referer |-> c, XJstzAmount |-> null, hashlock |-> agreed.jstz,
           secret |-> SecretA] : c \in {Alice, Bob}}
    \cup {[path |-> "/refund", Referer |-> c, XJstzAmount |-> null, hashlock |-> agreed.jstz] :
           c \in {Alice, Bob}}

\* in this specification request is the set of the requests whose handler
\* awaits the body, and response the sequence of the responses returned
Received == Cardinality(request) + Len(response)

\* a POST arrives: its handler runs up to 'await request.text()'
Arrive ==
  \E req \in RaceRequests :
    /\ Received < MaxRequests
    /\ request' = request \cup {[id |-> Received + 1, req |-> req, kv |-> Kv]}
    /\ UNCHANGED <<fixed, Kv, dateNow, response, issued, etherlinkVars>>

\* the body is read: the handler runs to its return without another request in
\* between
Resume ==
  \E waiting \in request :
  \E result \in {Route(StoreRead(waiting.kv, Kv), now(dateNow), now(dateNow), waiting.req)} :
  \E resp \in {HandlerResponse(waiting.req, result)} :
    /\ Kv' = result.kv
    /\ request' = request \ {waiting}
    /\ response' = Append(response, [id |-> waiting.id, req |-> waiting.req, resp |-> resp])
    /\ issued' = IF resp.XJstzTransfer # null
                 THEN Append(issued, [key |-> slice(waiting.req.hashlock, 2),
                                       to |-> Caller(waiting.req), header |-> resp.XJstzTransfer])
                 ELSE issued
    /\ UNCHANGED <<fixed, dateNow, etherlinkVars>>

\* a second passes, whatever requests are waiting
RaceTick ==
  /\ dateNow + TickMs <= StartMs + MaxClock * TickMs
  /\ dateNow' = dateNow + TickMs
  /\ UNCHANGED <<fixed, Kv, request, response, issued, etherlinkVars>>

\* the Jstz smart function with no request received yet
InitRace ==
  /\ poll = NoPoll
  /\ digests = [jstz |-> [message \in HashedMessages |-> sha256(message)],
                evm |-> [bytes \in HashedBytes |-> Sha256Bytes(bytes)]]
  /\ deployed = {"jstz"}
  /\ agreed = [jstz |-> HashlockA, evm |-> HashLockA]
  /\ Kv = EmptyKv
  /\ dateNow = StartMs
  /\ request = {}
  /\ response = <<>>
  /\ issued = <<>>
  /\ swaps = [id \in {} |-> ZeroSwapDetails]
  /\ balance = 0
  /\ contractOwner = ZeroAddress
  /\ blockTimestamp = 0
  /\ tx = NoTx
  /\ receipt = NoReceipt
  /\ paid = <<>>

NextRace ==
  \/ Arrive
  \/ Resume
  \/ RaceTick

SpecRace == InitRace /\ [][NextRace]_vars

\* ------------------------------------------------------------ the padding alone

\* sha256 pads the bytes of its message
Pad ==
  /\ response = NoResponse
  /\ response' = [status |-> 200, body |-> Padded(request.message)]
  /\ UNCHANGED <<fixed, Kv, dateNow, request, issued, etherlinkVars>>

\* sha256 is called with an array of 0 to MaxPadded bytes
InitPad ==
  /\ poll = NoPoll
  /\ digests = [jstz |-> <<>>, evm |-> <<>>]
  /\ deployed = {"jstz"}
  /\ agreed = [jstz |-> <<>>, evm |-> <<>>]
  /\ Kv = EmptyKv
  /\ dateNow = StartMs
  /\ request \in {[path |-> "sha256", typeof |-> "object", message |-> PadInput(n)] :
                   n \in 0..MaxPadded}
  /\ response = NoResponse
  /\ issued = <<>>
  /\ swaps = [id \in {} |-> ZeroSwapDetails]
  /\ balance = 0
  /\ contractOwner = ZeroAddress
  /\ blockTimestamp = 0
  /\ tx = NoTx
  /\ receipt = NoReceipt
  /\ paid = <<>>

NextPad == Pad

SpecPad == InitPad /\ [][NextPad]_vars

\* ------------------------------------------------------------ lists of a few swaps

\* the Jstz smart function from an empty store, with up to MaxCreated swaps
\* besides the agreed one, some of them claimed or refunded, and the lists
InitView ==
  /\ poll = NoPoll
  /\ digests = [jstz |-> [message \in HashedMessages |-> sha256(message)],
                evm |-> [bytes \in HashedBytes |-> Sha256Bytes(bytes)]]
  /\ deployed = {"jstz"}
  /\ agreed = [jstz |-> HashlockA, evm |-> HashLockA]
  /\ Kv = EmptyKv
  /\ dateNow = StartMs
  /\ request = NoRequest
  /\ response = NoResponse
  /\ issued = <<>>
  /\ swaps = [id \in {} |-> ZeroSwapDetails]
  /\ balance = 0
  /\ contractOwner = ZeroAddress
  /\ blockTimestamp = 0
  /\ tx = NoTx
  /\ receipt = NoReceipt
  /\ paid = <<>>

NextView ==
  \/ InitiateNext
  \/ ClaimAgreed
  \/ RefundLatest
  \/ ListSwaps
  \/ Deliver
  \/ Tick

SpecView == InitView /\ [][NextView]_vars

\* ------------------------------------------------------------ several swaps in one store

\* the Jstz smart function or the Etherlink contract HTLC v2.0, with swaps
\* under more than one hashlock
InitFrame == Start({{"jstz"}, {"etherlink"}}, ZeroAddress) /\ agreed.jstz = HashlockA

NextFrame ==
  \/ InitiateNext
  \/ ClaimAgreed
  \/ RefundLatest
  \/ Deliver
  \/ Tick
  \/ Lock
  \/ ClaimSwap
  \/ RefundSwap
  \/ Confirm
  \/ NextBlock

SpecFrame == InitFrame /\ [][NextFrame]_vars

\* ------------------------------------------------------------ hashlocks in either letter case

\* a hashlock with the letters of its hex digits in upper case: '0x' + 64 digits
UpperCased(hashlock) == <<48, 120>> \o toUpperCase(slice(hashlock, 2))

\* the agreed hashlock as sha256 returns it, and in upper case
CasedHashlocks == {agreed.jstz, UpperCased(agreed.jstz)}

\* POST /initiate by Alice under the hashlock in either case
InitiateCased ==
  \E h \in CasedHashlocks, r \in {undefined, Bob}, e \in {JsNumber(1), JsNumber(3)} :
    Handle([path |-> "/initiate", Referer |-> Alice, XJstzAmount |-> <<49, 48, 48, 48>>,
            hashlock |-> h, recipient |-> r, expiration |-> e])

\* POST /claim by Bob under the hashlock in either case, with the secret or another
ClaimCased ==
  \E h \in CasedHashlocks, s \in {SecretA, SecretB} :
    Handle([path |-> "/claim", Referer |-> Bob, XJstzAmount |-> null, hashlock |-> h,
            secret |-> s])

\* POST /refund by Alice under the hashlock in either case
RefundCased ==
  \E h \in CasedHashlocks :
    Handle([path |-> "/refund", Referer |-> Alice, XJstzAmount |-> null, hashlock |-> h])

\* GET /swap/ under the hashlock in either case
GetCased ==
  \E h \in CasedHashlocks :
    Read([path |-> "/swap/", Referer |-> null, XJstzAmount |-> null, hashlock |-> h],
         getSwap(Kv, h))

\* the Jstz smart function, called with hashlocks in either letter case
InitCase == Start({{"jstz"}}, ZeroAddress) /\ agreed.jstz = HashlockA

NextCase ==
  \/ InitiateCased
  \/ ClaimCased
  \/ RefundCased
  \/ GetCased
  \/ Deliver
  \/ Tick

SpecCase == InitCase /\ [][NextCase]_vars

\* ------------------------------------------------------------ requests with and without funds

\* X-JSTZ-AMOUNT: not set, '0', '999', '1000', '2500'
FundsHeaders == {null, <<48>>} \cup AmountHeaders

\* "amount" of the JSON body, in XTZ: none, or 1
BodyAmounts == {JsUndefined, JsNumber(2)}

\* the two hashlocks and the secret of each
FundedHashlocks == {HashlockA, HashlockB}

\* POST /initiate by Alice, with or without tez, with or without an amount in the body
InitiateFunded ==
  \E h \in FundedHashlocks, a \in FundsHeaders, named \in BodyAmounts :
    Handle([path |-> "/initiate", Referer |-> Alice, XJstzAmount |-> a, hashlock |-> h,
            recipient |-> undefined, expiration |-> JsNumber(3), amount |-> named])

\* POST /claim by Bob with either secret
ClaimFunded ==
  \E h \in FundedHashlocks, s \in {SecretA, SecretB} :
    Handle([path |-> "/claim", Referer |-> Bob, XJstzAmount |-> null, hashlock |-> h,
            secret |-> s])

\* POST /refund by Alice
RefundFunded ==
  \E h \in FundedHashlocks :
    Handle([path |-> "/refund", Referer |-> Alice, XJstzAmount |-> null, hashlock |-> h])

\* the Jstz smart function, called with and without funds
InitFunds == Start({{"jstz"}}, ZeroAddress) /\ agreed.jstz = HashlockA

NextFunds ==
  \/ InitiateFunded
  \/ ClaimFunded
  \/ RefundFunded
  \/ Deliver
  \/ Tick

SpecFunds == InitFunds /\ [][NextFunds]_vars

\* ------------------------------------------------------------ the web page: pollJstzOperation

\* what one fetch of /operations/<hash> comes to: the promise is rejected, the
\* response is not ok, its body is no JSON, or it is a result with a status
Rejected == [settled |-> "rejected", ok |-> FALSE, status |-> ""]
PollOutcomes ==
  {Rejected}
    \cup {[settled |-> "response", ok |-> FALSE, status |-> s] : s \in {"", "applied"}}
    \cup {[settled |-> "response", ok |-> TRUE, status |-> s] :
            s \in {"no JSON", "", "pending", "applied", "failed"}}

\* result.status === 'applied' || result.status === 'failed', of a response that is ok
IsFinal(outcome) ==
  /\ outcome.settled = "response"
  /\ outcome.ok
  /\ outcome.status \in {"applied", "failed"}

\* variant: the loop runs once more
LoopContinuesThrough(i, maxAttempts) == i <= maxAttempts

\* i < maxAttempts
LoopContinues(i, maxAttempts) == i < maxAttempts

\* the rest of the state while the page polls: no contract takes a step
ContractsIdle ==
  UNCHANGED <<digests, deployed, agreed, jstzVars, etherlinkVars>>

\* the head of the for loop: another poll, or throw new Error('Operation polling timeout')
Iterate ==
  /\ poll.pc = "for"
  /\ poll' = IF LoopContinues(poll.i, poll.maxAttempts)
             THEN [poll EXCEPT !.pc = "fetch"]
             ELSE [poll EXCEPT !.pc = "thrown", !.error = <<"Operation polling timeout">>]
  /\ ContractsIdle

\* the fetch settles: a final result is returned, anything else is passed over
Settle ==
  /\ poll.pc = "fetch"
  /\ \E outcome \in PollOutcomes :
       poll' = IF IsFinal(outcome)
               THEN [poll EXCEPT !.pc = "returned", !.result = outcome,
                                 !.fetched = Append(@, outcome)]
               ELSE [poll EXCEPT !.pc = "timer", !.fetched = Append(@, outcome)]
  /\ ContractsIdle

\* await new Promise(r => setTimeout(r, 1000)), then i++
Wake ==
  /\ poll.pc = "timer"
  /\ poll' = [poll EXCEPT !.pc = "for", !.i = @ + 1, !.delays = @ + 1]
  /\ ContractsIdle

\* pollJstzOperation is called with maxAttempts from 0 to MaxAttempts
InitPoll ==
  /\ \E n \in 0..MaxAttempts :
       poll = [pc |-> "for", maxAttempts |-> n, i |-> 0, fetched |-> <<>>, delays |-> 0,
               result |-> Rejected, error |-> <<>>]
  /\ digests = [jstz |-> <<>>, evm |-> <<>>]
  /\ deployed = {}
  /\ agreed = [jstz |-> <<>>, evm |-> <<>>]
  /\ Kv = EmptyKv
  /\ dateNow = StartMs
  /\ request = NoRequest
  /\ response = NoResponse
  /\ issued = <<>>
  /\ swaps = [id \in {} |-> ZeroSwapDetails]
  /\ balance = 0
  /\ contractOwner = ZeroAddress
  /\ blockTimestamp = 0
  /\ tx = NoTx
  /\ receipt = NoReceipt
  /\ paid = <<>>

NextPoll ==
  \/ Iterate
  \/ Settle
  \/ Wake

\* every fetch settles, every timer fires, and the function runs on when it can
FairPoll == WF_vars(Iterate) /\ WF_vars(Settle) /\ WF_vars(Wake)

SpecPoll == InitPoll /\ [][NextPoll]_vars /\ FairPoll
\* ------------------------------------------------------------ properties

\* a step in which the Jstz handler serves a request to path
Serves(path) == request = NoRequest /\ request'.path = path
\* a step in which the Etherlink contract executes a call of fn
Executes(fn) == tx = NoTx /\ tx'.fn = fn

\* the swap a store holds under a hashlock, nullObject when it holds none
StoredSwap(kv, hashlock) ==
  IF slice(hashlock, 2) \in SwapKeys(kv) THEN JSONparse(kv[slice(hashlock, 2)]) ELSE nullObject

\* '0x' and 64 hex digits: a secret of 32 bytes
WellFormedSecret(s) == Len(s) = 66 /\ startsWith0x(s) /\ \A i \in 3..66 : IsHexChar(s[i])

\* an account that accepts the value sent to it
Payable(account) == account # NonPayable

\* the condition the specification states for claim(h, s, c), on Jstz: there is a
\* swap under h, digest(s) = h, now < expiration, the swap is open, and the
\* recipient is unset or is c
JstzClaimStated(kv, t, req) ==
  LET swap == StoredSwap(kv, req.hashlock)
  IN  /\ swap # nullObject
      /\ req.secret \in DOMAIN digests.jstz
      /\ digests.jstz[req.secret] = req.hashlock
      /\ t < swap.expiration
      /\ swap.status = OPEN
      /\ (swap.recipient = null \/ swap.recipient = Caller(req))

\* the same on Etherlink
EthClaimStated(sw, t, call) ==
  LET swap == SwapDetails(sw, call.swapId)
  IN  /\ swap.sender # ZeroAddress
      /\ digests.evm[call.secret] = swap.hashLock
      /\ t < swap.expiration
      /\ swap.status = OPEN
      /\ (swap.recipient = ZeroAddress \/ swap.recipient = call.sender)

\* C1 as the specification states it: claim(h, s, c) succeeds iff digest(s) = h,
\* now < expiration, status = Open and the recipient is unset or is c.  A claim
\* with the 5-byte secret of a swap locked under its digest, a claim by a caller
\* without identity, and a claim by a contract that takes no value all fail.
C1_AsStated ==
  [][/\ Serves("/claim") =>
          ((response'.status = 200) <=> JstzClaimStated(Kv, now(dateNow), request'))
     /\ Executes("claimSwap") =>
          ((receipt'.status = "success") <=> EthClaimStated(swaps, blockTimestamp, tx'))]_vars

\* C1, amended: claim(h, s, c) succeeds iff the stated condition holds and, in
\* addition, s is a well-formed secret of 32 bytes, the caller has an identity
\* (Jstz), and the claimer accepts the value sent to it (Etherlink).
C1_ClaimSucceedsIff ==
  [][/\ Serves("/claim") =>
          ((response'.status = 200) <=>
             /\ JstzClaimStated(Kv, now(dateNow), request')
             /\ WellFormedSecret(request'.secret)
             /\ request'.Referer # null)
     /\ Executes("claimSwap") =>
          ((receipt'.status = "success") <=>
             /\ EthClaimStated(swaps, blockTimestamp, tx')
             /\ Len(tx'.secret) = 32
             /\ Payable(tx'.sender))]_vars

\* a claim by the designated recipient has succeeded on Jstz
C1_Witness ==
  request.path = "/claim" /\ response.status = 200 /\ request.Referer = Bob

\* the condition the specification states for refund(h, r), on Jstz: there is a
\* swap under h, now >= expiration, the swap is open, and r is its sender
JstzRefundStated(kv, t, req) ==
  LET swap == StoredSwap(kv, req.hashlock)
  IN  /\ swap # nullObject
      /\ t >= swap.expiration
      /\ swap.status = OPEN
      /\ swap.sender = Caller(req)

\* the same on Etherlink
EthRefundStated(sw, t, call) ==
  LET swap == SwapDetails(sw, call.swapId)
  IN  /\ swap.sender # ZeroAddress
      /\ t >= swap.expiration
      /\ swap.status = OPEN
      /\ swap.sender = call.sender

\* C2 as the specification states it: refund(h, r) succeeds iff now >= expiration,
\* status = Open and r is the sender.  On Etherlink the refund of a swap whose
\* sender is a contract that takes no value reverts with TransferFailed.
C2_AsStated ==
  [][/\ Serves("/refund") =>
          ((response'.status = 200) <=> JstzRefundStated(Kv, now(dateNow), request'))
     /\ Executes("refundSwap") =>
          ((receipt'.status = "success") <=> EthRefundStated(swaps, blockTimestamp, tx'))]_vars

\* C2, amended: refund(h, r) succeeds iff now >= expiration, status = Open, r is
\* the sender and, on Etherlink, the sender accepts the value sent back to it.
C2_RefundSucceedsIff ==
  [][/\ Serves("/refund") =>
          ((response'.status = 200) <=> JstzRefundStated(Kv, now(dateNow), request'))
     /\ Executes("refundSwap") =>
          ((receipt'.status = "success") <=>
             EthRefundStated(swaps, blockTimestamp, tx') /\ Payable(tx'.sender))]_vars

\* a refund has succeeded on Etherlink
C2_Witness == tx.fn = "refundSwap" /\ receipt.status = "success"

\* C3: a claim at or after the expiration is rejected even when the secret is
\* correct.  contracts/HTLC.sol has no such check: the claim succeeds.
C3_NoClaimAfterExpiration ==
  [][/\ (Serves("/claim") /\ StoredSwap(Kv, request'.hashlock) # nullObject
           /\ now(dateNow) >= StoredSwap(Kv, request'.hashlock).expiration)
          => response'.status # 200
     /\ (Executes("claimSwap") /\ _swapExists(swaps, tx'.swapId)
           /\ blockTimestamp >= SwapDetails(swaps, tx'.swapId).expiration)
          => receipt'.status # "success"]_vars

\* the status of the swap stored under a key
JstzStatus(kv, key) == JSONparse(kv[key]).status

\* a status either stays or goes from Open to Claimed or to Refunded
StatusStep(old, new) == new = old \/ (old = OPEN /\ new \in {CLAIMED, REFUNDED})

\* C4: the status of a swap changes only from Open to Claimed or from Open to
\* Refunded; a swap is created Open and is never removed.
C4_StatusTransitions ==
  [][/\ \A key \in SwapKeys(Kv) :
          key \in SwapKeys(Kv') /\ StatusStep(JstzStatus(Kv, key), JstzStatus(Kv', key))
     /\ \A key \in SwapKeys(Kv') \ SwapKeys(Kv) : JstzStatus(Kv', key) = OPEN
     /\ \A id \in DOMAIN swaps :
          id \in DOMAIN swaps' /\ StatusStep(swaps[id].status, swaps'[id].status)
     /\ \A id \in DOMAIN swaps' \ DOMAIN swaps : swaps'[id].status = OPEN]_vars

\* a swap on Jstz has been refunded
C4_Witness == \E key \in SwapKeys(Kv) : JstzStatus(Kv, key) = REFUNDED

\* the error of a rejected request
ErrorOf(resp) == JSONparse(resp.body).error

\* the step is a claim or a refund against a swap that is Claimed or Refunded
JstzCallOnResolved ==
  /\ Serves("/claim") \/ Serves("/refund")
  /\ StoredSwap(Kv, request'.hashlock) # nullObject
  /\ StoredSwap(Kv, request'.hashlock).status # OPEN

EthCallOnResolved ==
  /\ Executes("claimSwap") \/ Executes("refundSwap")
  /\ _swapExists(swaps, tx'.swapId)
  /\ SwapDetails(swaps, tx'.swapId).status # OPEN

\* a request that passes the checks the Jstz functions make on their arguments
\* before they look the swap up
JstzWellFormed(req) ==
  /\ req.Referer # null
  /\ req.path = "/claim" => WellFormedSecret(req.secret)

\* C5 as the specification states it: every claim or refund against a Claimed or
\* Refunded swap fails with NotOpen.  On Jstz a claim with a malformed secret, or
\* a call without identity, fails with the error of that check instead.
C5_AsStated ==
  [][/\ JstzCallOnResolved =>
          response'.status = 400 /\ ErrorOf(response')[1] = "Swap is "
     /\ EthCallOnResolved =>
          receipt'.status = "reverted" /\ receipt'.error = "SwapNotOpen"]_vars

\* C5, amended: every claim or refund against a Claimed or Refunded swap fails
\* and changes nothing; it fails with NotOpen on Etherlink, and on Jstz whenever
\* the request carries a caller and, for a claim, a well-formed secret.
C5_ResolvedSwapRejectsCalls ==
  [][/\ JstzCallOnResolved =>
          /\ response'.status = 400
          /\ response'.XJstzTransfer = null
          /\ Kv' = Kv
          /\ JstzWellFormed(request') =>
               ErrorOf(response') =
                 <<"Swap is ", StoredSwap(Kv, request'.hashlock).status,
                   IF request'.path = "/claim" THEN ", cannot claim" ELSE ", cannot refund">>
     /\ EthCallOnResolved =>
          /\ receipt'.status = "reverted"
          /\ receipt'.error = "SwapNotOpen"
          /\ swaps' = swaps
          /\ balance' = balance]_vars

\* a second claim with the right secret has been rejected as not open
C5_Witness ==
  /\ request.path = "/claim"
  /\ response.status = 400
  /\ ErrorOf(response) = <<"Swap is ", CLAIMED, ", cannot claim">>

\* the swaps that this step takes from Open to Claimed or Refunded
Resolved ==
  {key \in SwapKeys(Kv) \cap SwapKeys(Kv') :
     JstzStatus(Kv, key) = OPEN /\ JstzStatus(Kv', key) \in {CLAIMED, REFUNDED}}

\* C6: the Jstz function issues the transfer instruction exactly once per terminal
\* transition: a response carries X-JSTZ-TRANSFER exactly when its call has
\* committed one swap as Claimed or Refunded, the instruction is for the amount
\* of that swap, an error response and the response to a query or a listing
\* carry none, and no swap is ever the subject of two instructions.
C6_OneTransferPerResolution ==
  [][/\ (request = NoRequest /\ request' # NoRequest) =>
          /\ Cardinality(Resolved) = (IF response'.XJstzTransfer # null THEN 1 ELSE 0)
          /\ response'.status # 200 => response'.XJstzTransfer = null
          /\ \A key \in Resolved :
               /\ ParseInt10(response'.XJstzTransfer) = JSONparse(Kv[key]).amountMutez
               /\ issued' = Append(issued, [key |-> key, to |-> Caller(request'),
                                             header |-> response'.XJstzTransfer])
          /\ Resolved = {} => issued' = issued
     /\ ~(request = NoRequest /\ request' # NoRequest) => (Resolved = {} /\ issued' = issued)
     /\ \A i, j \in 1..Len(issued') : issued'[i].key = issued'[j].key => i = j]_vars

\* a refund has been answered with a transfer instruction
C6_Witness ==
  request.path = "/refund" /\ response.status = 200 /\ Len(issued) = 1
    /\ issued[1].header = response.XJstzTransfer

\* C7: every rejected initiate, claim or refund leaves the store exactly as it
\* was before the call; so does every reverted call on Etherlink.
C7_RejectedCallChangesNothing ==
  [][/\ (request = NoRequest /\ request' # NoRequest /\ response'.status # 200) => Kv' = Kv
     /\ (tx = NoTx /\ tx' # NoTx /\ receipt'.status = "reverted") =>
          (swaps' = swaps /\ balance' = balance /\ paid' = paid)]_vars

\* a claim by someone other than the designated recipient has been rejected
C7_Witness ==
  /\ request.path = "/claim"
  /\ response.status = 400
  /\ ErrorOf(response) = <<"Only the designated recipient can claim this swap">>
  /\ SwapKeys(Kv) # {}

\* C8: a successful claim sets the status to Claimed, stores the claimer, the
\* time of resolution and the revealed secret, and emits a transfer of the amount
\* to the claimer.  contracts/HTLC.sol lets anyone with the secret claim a swap
\* that has a designated recipient, and then sends the amount to that recipient.
C8_ClaimEffect ==
  [][/\ (Serves("/claim") /\ response'.status = 200) =>
          LET key == slice(request'.hashlock, 2)
              before == JSONparse(Kv[key])
              after == JSONparse(Kv'[key])
          IN  /\ after.status = CLAIMED
              /\ after.claimedBy = Caller(request')
              /\ after.claimedAt = now(dateNow')
              /\ after.revealedSecret = request'.secret
              /\ issued' = Append(issued, [key |-> key, to |-> Caller(request'),
                                            header |-> toString(before.amountMutez)])
     /\ (Executes("claimSwap") /\ receipt'.status = "success") =>
          LET id == tx'.swapId
          IN  /\ swaps'[id].status = CLAIMED
              /\ swaps'[id].recipient = tx'.sender
              /\ paid' = Append(paid, [swapId |-> id, to |-> tx'.sender,
                                        amount |-> swaps[id].amount])]_vars

\* C9 as the specification states it: a successful refund sets the status to
\* Refunded, stores the time of resolution, and emits a transfer of the amount
\* back to the sender.  The Etherlink contract keeps no time of resolution: its
\* swap record has no field for it.
C9_AsStated ==
  [][/\ (Serves("/refund") /\ response'.status = 200) =>
          LET after == JSONparse(Kv'[slice(request'.hashlock, 2)])
          IN  after.status = REFUNDED /\ "refundedAt" \in DOMAIN after
     /\ (Executes("refundSwap") /\ receipt'.status = "success") =>
          LET after == swaps'[tx'.swapId]
          IN  after.status = REFUNDED /\ DOMAIN after \cap {"refundedAt", "resolvedAt"} # {}]_vars

\* C9, amended: a successful refund sets the status to Refunded, changes nothing
\* else of the swap, and emits a transfer of the amount back to the sender; the
\* Jstz function also stores the time of the refund as refundedAt, the
\* Etherlink contract stores no time.
C9_RefundEffect ==
  [][/\ (Serves("/refund") /\ response'.status = 200) =>
          LET key == slice(request'.hashlock, 2)
              before == JSONparse(Kv[key])
              after == JSONparse(Kv'[key])
          IN  /\ after.status = REFUNDED
              /\ DOMAIN after = DOMAIN before \cup {"refundedAt"}
              /\ after.refundedAt = now(dateNow')
              /\ \A f \in DOMAIN before \ {"status"} : after[f] = before[f]
              /\ issued' = Append(issued, [key |-> key, to |-> before.sender,
                                            header |-> toString(before.amountMutez)])
     /\ (Executes("refundSwap") /\ receipt'.status = "success") =>
          LET id == tx'.swapId
          IN  /\ swaps' = [swaps EXCEPT ![id].status = REFUNDED]
              /\ balance' = balance - swaps[id].amount
              /\ paid' = Append(paid, [swapId |-> id, to |-> swaps[id].sender,
                                        amount |-> swaps[id].amount])]_vars

\* a refund has succeeded on Jstz
C9_Witness == request.path = "/refund" /\ response.status = 200

\* the preconditions of initiate that the Jstz function and the specification
\* share: a well-formed hashLock, an expiration strictly after the time the
\* function reads, and no record under the hashLock
JstzInitiateCommon(kv, t, req) ==
  /\ isValidHashlock(req.hashlock)
  /\ parseExpiration(req.expiration) > t
  /\ StoredSwap(kv, req.hashlock) = nullObject

\* what the Jstz function asks of an initiate beyond the stated preconditions: an
\* identified caller, and a well-formed address when a recipient is given
JstzInitiateIdentified(req) ==
  /\ req.Referer # null
  /\ req.recipient # undefined => isValidAddress(req.recipient)

\* the preconditions of initiateSwap on Etherlink, where the minimum is zero and
\* every bytes32 is a well-formed hashLock
EthInitiateStated(sw, timestamp, call) ==
  /\ call.value > 0
  /\ call.expiration > timestamp
  /\ ~_swapExists(sw, call.hashLock)

\* the effect of a successful initiate on the Jstz store
JstzInitiateEffect ==
  LET req == request'
      key == slice(req.hashlock, 2)
      swap == JSONparse(Kv'[key])
  IN  /\ DOMAIN Kv' = DOMAIN Kv \cup {key, swap_keys}
      /\ \A k \in SwapKeys(Kv) : Kv'[k] = Kv[k]
      /\ swap.status = OPEN
      /\ swap.hashlock = req.hashlock
      /\ swap.sender = req.Referer
      /\ swap.recipient = (IF req.recipient = undefined THEN null ELSE req.recipient)
      /\ swap.amountMutez = ReceivedAmount(req)
      /\ swap.expiration = parseExpiration(req.expiration)
      /\ swap.createdAt = now(dateNow')
      /\ Includes(JSONparse(Kv'[swap_keys]), req.hashlock)
      /\ response'.XJstzTransfer = null

\* the effect of a successful initiateSwap on the storage of the contract
EthInitiateEffect ==
  LET call == tx'
  IN  /\ DOMAIN swaps' = DOMAIN swaps \cup {call.hashLock}
      /\ \A id \in DOMAIN swaps : swaps'[id] = swaps[id]
      /\ swaps'[call.hashLock] =
           [recipient |-> call.recipient, sender |-> call.sender, amount |-> call.value,
            expiration |-> call.expiration, hashLock |-> call.hashLock, status |-> OPEN]
      /\ balance' = balance + call.value
      /\ paid' = paid

\* C10 as the specification states it: initiate succeeds exactly when the hashLock
\* is well-formed, the amount is strictly greater than the minimum, the
\* expiration is strictly after the current time and no record exists at the
\* hashLock.  The Jstz function accepts the minimum itself, and refuses a call
\* without identity or with a malformed recipient.
C10_AsStated ==
  [][/\ Serves("/initiate") =>
          (response'.status = 200 <=>
             /\ JstzInitiateCommon(Kv, now(dateNow), request')
             /\ ReceivedAmount(request') > MIN_AMOUNT_MUTEZ)
     /\ Executes("initiateSwap") =>
          (receipt'.status = "success" <=> EthInitiateStated(swaps, blockTimestamp, tx'))]_vars

\* C10, amended: initiate succeeds exactly when the hashLock is well-formed, the
\* amount is at least the minimum (on Etherlink: more than zero), the expiration
\* is strictly after the current time, no record exists at the hashLock and, on
\* Jstz, the caller is identified and a recipient that is given is a well-formed
\* address.  On success it stores a new Open swap keyed by the hashLock with the
\* caller as sender and the given recipient, amount and expiration, changes no
\* other swap and, on Jstz, has the hashLock in the enumeration index.
C10_InitiateSucceedsIff ==
  [][/\ Serves("/initiate") =>
          /\ response'.status = 200 <=>
               /\ JstzInitiateCommon(Kv, now(dateNow), request')
               /\ ReceivedAmount(request') >= MIN_AMOUNT_MUTEZ
               /\ JstzInitiateIdentified(request')
          /\ response'.status = 200 => JstzInitiateEffect
     /\ Executes("initiateSwap") =>
          /\ receipt'.status = "success" <=> EthInitiateStated(swaps, blockTimestamp, tx')
          /\ receipt'.status = "success" => EthInitiateEffect]_vars

\* a swap has been initiated on Jstz with exactly the minimum amount
C10_Witness ==
  /\ request.path = "/initiate"
  /\ response.status = 200
  /\ ReceivedAmount(request) = MIN_AMOUNT_MUTEZ
  /\ StoredSwap(Kv, request.hashlock).status = OPEN
\* an initiate on Jstz that passes every check made before the look-up of the
\* hashLock: amount, expiration, identity of the sender, format of the recipient
JstzInitiateOtherwiseValid(t, req) ==
  /\ ReceivedAmount(req) >= MIN_AMOUNT_MUTEZ
  /\ parseExpiration(req.expiration) > t
  /\ JstzInitiateIdentified(req)

\* an initiateSwap on Etherlink that passes the checks made before the look-up
EthInitiateOtherwiseValid(timestamp, call) == call.value > 0 /\ call.expiration > timestamp

\* the step is an initiate under a hashLock that already has a record
JstzInitiateAgain == Serves("/initiate") /\ StoredSwap(Kv, request'.hashlock) # nullObject
EthInitiateAgain == Executes("initiateSwap") /\ tx'.hashLock \in DOMAIN swaps

\* C11 as the specification states it: an initiate with a hashLock that was used
\* before always fails with AlreadyExists.  A retry that is also invalid in its
\* amount, expiration, sender or recipient fails with the error of that check.
C11_AsStated ==
  [][/\ JstzInitiateAgain =>
          /\ response'.status = 400
          /\ ErrorOf(response') = <<"Swap with this hashlock already exists">>
     /\ EthInitiateAgain =>
          /\ receipt'.status = "reverted"
          /\ receipt'.error = "SwapAlreadyExists"]_vars

\* C11, amended: an initiate with a hashLock that was used before always fails,
\* also after the earlier swap was claimed or refunded, and leaves the existing
\* record unchanged; it fails with AlreadyExists when the call is valid in
\* everything else, and with the error of an earlier check when it is not.
C11_UsedHashLockIsRefused ==
  [][/\ JstzInitiateAgain =>
          /\ response'.status = 400
          /\ Kv' = Kv
          /\ JstzInitiateOtherwiseValid(now(dateNow), request') <=>
               ErrorOf(response') = <<"Swap with this hashlock already exists">>
     /\ EthInitiateAgain =>
          /\ receipt'.status = "reverted"
          /\ swaps' = swaps /\ balance' = balance
          /\ EthInitiateOtherwiseValid(blockTimestamp, tx') <=>
               receipt'.error = "SwapAlreadyExists"]_vars

\* an initiate that is valid in everything else, under the hashLock of a swap
\* that was refunded, has been refused
C11_Witness ==
  /\ request.path = "/initiate"
  /\ response.status = 400
  /\ ErrorOf(response) = <<"Swap with this hashlock already exists">>
  /\ StoredSwap(Kv, request.hashlock).status = REFUNDED

\* the swaps a response to a query or a listing shows
ShownSwaps ==
  IF request.path = "/swap/"
    THEN (IF JSONparse(response.body).found THEN {JSONparse(response.body).swap} ELSE {})
  ELSE IF request.path = "/swaps"
    THEN {JSONparse(response.body)[i] : i \in 1..Len(JSONparse(response.body))}
  ELSE {}

\* C12: in every reachable state a stored swap holds a revealedSecret if and
\* only if its status is Claimed, and no result of a query or of a listing shows
\* a revealedSecret for a swap that is not Claimed.
C12_SecretOnlyWhenClaimed ==
  /\ \A key \in SwapKeys(Kv) :
       "revealedSecret" \in DOMAIN JSONparse(Kv[key]) <=> JstzStatus(Kv, key) = CLAIMED
  /\ \A shown \in ShownSwaps :
       "revealedSecret" \in DOMAIN shown => shown.status = CLAIMED

\* a query of an Open swap has been answered, and the swap is shown
C12_Witness ==
  /\ request.path = "/swap/"
  /\ \E shown \in ShownSwaps : shown.status = OPEN /\ shown.hashlock = request.hashlock

\* the first violated precondition of a claim, in the order the specification
\* gives: NotFound, NotOpen, Expired, InvalidSecretLength, SecretMismatch,
\* Unauthorized; "none" when every precondition holds
StatedFailure(found, open, expired, lengthOk, matches, authorized) ==
  IF ~found THEN "NotFound"
  ELSE IF ~open THEN "NotOpen"
  ELSE IF expired THEN "Expired"
  ELSE IF ~lengthOk THEN "InvalidSecretLength"
  ELSE IF ~matches THEN "SecretMismatch"
  ELSE IF ~authorized THEN "Unauthorized"
  ELSE "none"

\* the failure a response of the Jstz function reports, "none" for a success
JstzFailure(resp) ==
  IF resp.status = 200 THEN "none"
  ELSE LET message == ErrorOf(resp)[1]
       IN  CASE message = "Invalid hashlock format" -> "InvalidHashLock"
             [] message = "Secret is required" -> "InvalidSecretLength"
             [] message = "Invalid secret format: must be 0x + 64 hex chars" -> "InvalidSecretLength"
             [] message = "Claimer address required" -> "NoIdentity"
             [] message = "Swap not found" -> "NotFound"
             [] message = "Swap is " -> "NotOpen"
             [] message = "Swap has expired, cannot claim" -> "Expired"
             [] message = "Invalid secret: hash does not match hashlock" -> "SecretMismatch"
             [] message = "Only the designated recipient can claim this swap" -> "Unauthorized"
             [] OTHER -> message

\* the failure a receipt of the Etherlink contract reports, "none" for a success
EthFailure(rcpt) ==
  IF rcpt.status = "success" THEN "none"
  ELSE CASE rcpt.error = "SwapDoesNotExist" -> "NotFound"
         [] rcpt.error = "SwapNotOpen" -> "NotOpen"
         [] rcpt.error = "SwapExpired" -> "Expired"
         [] rcpt.error = "IncorrectSecretLength" -> "InvalidSecretLength"
         [] rcpt.error = "IncorrectHashLock" -> "SecretMismatch"
         [] rcpt.error = "UnauthorizedClaimer" -> "Unauthorized"
         [] OTHER -> rcpt.error

\* the first violated precondition of a claim on Jstz, in the stated order
JstzStatedFailure(kv, t, req) ==
  LET swap == StoredSwap(kv, req.hashlock)
      found == swap # nullObject
  IN  StatedFailure(found,
                    found /\ swap.status = OPEN,
                    found /\ t >= swap.expiration,
                    req.secret # undefined /\ WellFormedSecret(req.secret),
                    req.secret \in DOMAIN digests.jstz /\ digests.jstz[req.secret] = req.hashlock,
                    found /\ (swap.recipient = null \/ swap.recipient = Caller(req)))

\* the first violated precondition of a claimSwap on Etherlink, in the stated order
EthStatedFailure(sw, t, call) ==
  LET swap == SwapDetails(sw, call.swapId)
  IN  StatedFailure(call.swapId \in DOMAIN sw,
                    swap.status = OPEN,
                    t >= swap.expiration,
                    Len(call.secret) = 32,
                    digests.evm[call.secret] = swap.hashLock,
                    swap.recipient = ZeroAddress \/ swap.recipient = call.sender)

\* C13 as the specification states it: a claim that violates several
\* preconditions reports the first violated one in the order NotFound, NotOpen,
\* Expired, InvalidSecretLength, SecretMismatch, Unauthorized.  The Jstz function
\* checks the format of the hashLock and of the secret and the identity of the
\* caller before it looks the swap up.
C13_AsStated ==
  [][/\ Serves("/claim") =>
          JstzFailure(response') = JstzStatedFailure(Kv, now(dateNow), request')
     /\ (Executes("claimSwap") /\ Payable(tx'.sender)) =>
          EthFailure(receipt') = EthStatedFailure(swaps, blockTimestamp, tx')]_vars

\* C13, amended: the Etherlink contract reports the first violated precondition
\* in the stated order (and TransferFailed when all hold and the payment fails);
\* the Jstz function first reports a malformed hashLock, then a missing or
\* malformed secret, then a caller without identity, and only then the first of
\* NotFound, NotOpen, Expired, SecretMismatch, Unauthorized.
C13_FirstViolatedIsReported ==
  [][/\ Serves("/claim") =>
          JstzFailure(response') =
            (IF ~isValidHashlock(request'.hashlock) THEN "InvalidHashLock"
             ELSE IF request'.secret = undefined \/ ~WellFormedSecret(request'.secret)
               THEN "InvalidSecretLength"
             ELSE IF request'.Referer = null THEN "NoIdentity"
             ELSE JstzStatedFailure(Kv, now(dateNow), request'))
     /\ Executes("claimSwap") =>
          EthFailure(receipt') =
            (IF EthStatedFailure(swaps, blockTimestamp, tx') = "none" /\ ~Payable(tx'.sender)
             THEN "TransferFailed"
             ELSE EthStatedFailure(swaps, blockTimestamp, tx'))]_vars

\* a claim after the expiration with a secret of the wrong length has been
\* rejected as expired
C13_Witness ==
  /\ tx.fn = "claimSwap"
  /\ Len(tx.secret) # 32
  /\ receipt.status = "reverted"
  /\ receipt.error = "SwapExpired"

\* C14: a claim whose secret is not exactly 32 bytes long never succeeds, even
\* when the digest of that secret equals the hashLock, and it is rejected with
\* the secret-length failure whenever the swap is there to be claimed (it
\* exists, is Open and has not expired; on Jstz, whenever the hashLock is
\* well-formed), so a swap locked under the digest of a preimage of another
\* length is never Claimed.  claimSwap of contracts/HTLC.sol does not look at
\* the length.
C14_WrongLengthNeverClaims ==
  [][/\ (Serves("/claim") /\ (request'.secret = undefined \/ ~WellFormedSecret(request'.secret))) =>
          /\ response'.status = 400
          /\ Kv' = Kv
          /\ isValidHashlock(request'.hashlock) => JstzFailure(response') = "InvalidSecretLength"
     /\ (Executes("claimSwap") /\ Len(tx'.secret) # 32) =>
          /\ receipt'.status = "reverted"
          /\ swaps' = swaps
          /\ EthStatedFailure(swaps, blockTimestamp, tx') \in {"InvalidSecretLength", "none"} =>
               receipt'.error = "IncorrectSecretLength"]_vars

\* C15: a list request never returns more than the fixed maximum of 100 swaps,
\* whatever limit the caller supplies and however many swaps are stored.  The
\* handler passes a limit of 0, of NaN or below zero on to slice(-limit), which
\* then keeps the whole index or all of it but its first entries.
C15_ListIsCapped ==
  request.path = "/swaps" => Len(JSONparse(response.body)) <= MAX_SWAPS_LIST

\* the sum of the amounts of the Open swaps among ids
RECURSIVE OpenAmounts(_, _)
OpenAmounts(sw, ids) ==
  IF ids = {} THEN 0
  ELSE LET id == CHOOSE x \in ids : TRUE
       IN  (IF sw[id].status = OPEN THEN sw[id].amount ELSE 0) + OpenAmounts(sw, ids \ {id})

\* C16: the Etherlink contract has no owner or admin withdrawal: value leaves
\* the contract only through a successful claim or a successful refund, and in
\* every reachable state the balance of the contract is at least the sum of the
\* amounts of all Open swaps.  contracts/HTLC.sol still has emergencyWithdraw,
\* by which its owner takes the escrow of Open swaps.
C16_BalanceCoversOpenSwaps ==
  /\ balance >= OpenAmounts(swaps, DOMAIN swaps)
  /\ \A i \in 1..Len(paid) : paid[i].swapId \in DOMAIN swaps


\* ------------------------------------------------------------ the two-sided swap

\* the escrow of the initiator, on Jstz, and of the responder, on Etherlink
InitiatorEscrow == StoredSwap(Kv, agreed.jstz)
ResponderEscrow == SwapDetails(swaps, agreed.evm)

\* the initiator has claimed the responder's escrow and refunded its own
InitiatorHasBoth ==
  /\ InitiatorEscrow # nullObject
  /\ InitiatorEscrow.status = REFUNDED
  /\ ResponderEscrow.status = CLAIMED

\* the responder has claimed the initiator's escrow and refunded its own
ResponderHasBoth ==
  /\ InitiatorEscrow # nullObject
  /\ InitiatorEscrow.status = CLAIMED
  /\ ResponderEscrow.status = REFUNDED

\* the initiator's escrow is open and its expiration is still ahead
InitiatorEscrowPending(kv, t) ==
  /\ StoredSwap(kv, agreed.jstz) # nullObject
  /\ StoredSwap(kv, agreed.jstz).status = OPEN
  /\ t < StoredSwap(kv, agreed.jstz).expiration

JstzOpenToAll(kv, t, req) ==
  /\ JstzClaimStated(kv, t, req)
  /\ StoredSwap(kv, req.hashlock).recipient = null
  /\ req.Referer # null

\* the same on Etherlink
EthOpenToAll(sw, t, call) ==
  /\ EthClaimStated(sw, t, call)
  /\ SwapDetails(sw, call.swapId).recipient = ZeroAddress

\* the claim served in this step succeeds and the claimer is sent the amount
JstzClaimPays ==
  /\ response'.status = 200
  /\ issued' = Append(issued, [key |-> slice(request'.hashlock, 2), to |-> request'.Referer,
                               header |-> toString(StoredSwap(Kv, request'.hashlock).amountMutez)])

EthClaimPays ==
  /\ receipt'.status = "success"
  /\ paid' = Append(paid, [swapId |-> tx'.swapId, to |-> tx'.sender,
                           amount |-> SwapDetails(swaps, tx'.swapId).amount])

\* a claim of a swap that has been claimed
JstzClaimsAgain ==
  /\ Serves("/claim")
  /\ StoredSwap(Kv, request'.hashlock) # nullObject
  /\ StoredSwap(Kv, request'.hashlock).status = CLAIMED

EthClaimsAgain == Executes("claimSwap") /\ SwapDetails(swaps, tx'.swapId).status = CLAIMED

\* C18 as the specification states it: a swap without a recipient is claimed by
\* any identity that supplies the secret of its hashlock before the expiration,
\* the first such claim is paid, every later one is rejected without a
\* transfer.  The claim with the 5-byte secret of a swap locked under its
\* digest is rejected, and so is the claim of a contract that takes no value.
C18_AsStated ==
  [][/\ (Serves("/claim") /\ JstzOpenToAll(Kv, now(dateNow), request')) => JstzClaimPays
     /\ (Executes("claimSwap") /\ EthOpenToAll(swaps, blockTimestamp, tx')) => EthClaimPays
     /\ JstzClaimsAgain => (response'.status # 200 /\ issued' = issued)
     /\ EthClaimsAgain => (receipt'.status # "success" /\ paid' = paid)]_vars

\* C18, amended: the same for a secret that is well formed, of 32 bytes, and,
\* on Etherlink, for a claimer that accepts the value sent to it.
C18_FirstValidClaimWins ==
  [][/\ (Serves("/claim") /\ JstzOpenToAll(Kv, now(dateNow), request')
           /\ WellFormedSecret(request'.secret)) => JstzClaimPays
     /\ (Executes("claimSwap") /\ EthOpenToAll(swaps, blockTimestamp, tx')
           /\ Len(tx'.secret) = 32 /\ Payable(tx'.sender)) => EthClaimPays
     /\ JstzClaimsAgain => (response'.status # 200 /\ issued' = issued)
     /\ EthClaimsAgain => (receipt'.status # "success" /\ paid' = paid)]_vars

\* a swap without a recipient has been claimed by one identity, and the claim
\* of another with the same secret has then been rejected
C18_Witness ==
  /\ request.path = "/claim"
  /\ response.status # 200
  /\ request.Referer # null
  /\ StoredSwap(Kv, request.hashlock) # nullObject
  /\ StoredSwap(Kv, request.hashlock).recipient = null
  /\ StoredSwap(Kv, request.hashlock).status = CLAIMED
  /\ StoredSwap(Kv, request.hashlock).revealedSecret = request.secret
  /\ StoredSwap(Kv, request.hashlock).claimedBy # request.Referer
  /\ Len(issued) = 1

\* ------------------------------------------------------------ no funds locked forever

\* the sender's refund of a swap that is open at or after its expiration succeeds
RefundAtExpirationSucceeds(accepting) ==
  /\ (Serves("/refund") /\ JstzRefundStated(Kv, now(dateNow), request')) => response'.status = 200
  /\ (Executes("refundSwap") /\ EthRefundStated(swaps, blockTimestamp, tx')
        /\ (accepting => Payable(tx'.sender))) => receipt'.status = "success"

\* the escrow on Jstz, once there, is eventually claimed or refunded
JstzEscrowResolves ==
  (InitiatorEscrow # nullObject)
    ~> (InitiatorEscrow # nullObject /\ InitiatorEscrow.status \in {CLAIMED, REFUNDED})

C20_StoredSwapsWellFormed ==
  /\ \A key \in SwapKeys(Kv) :
       /\ JSONparse(Kv[key]).amountMutez > 0
       /\ JSONparse(Kv[key]).expiration > JSONparse(Kv[key]).createdAt
  /\ \A id \in DOMAIN swaps : swaps[id].amount > 0

\* ------------------------------------------------------------ the records of the store

\* the records of the store other than those under keys stay as they are
Untouched(keys) ==
  \A key \in SwapKeys(Kv) \ keys : key \in SwapKeys(Kv') /\ Kv'[key] = Kv[key]

\* C21: a swap record is created only by initiate, is changed only by the one
\* claim or refund that resolves it, and is never deleted: a query of its
\* hashlock finds it in every later state, resolved or not, whatever other
\* swaps were created since.
C21_RecordsAreKept ==
  [][/\ Kv' # Kv =>
          \E key \in {slice(request'.hashlock, 2)} :
            /\ request = NoRequest
            /\ response'.status = 200
            /\ Untouched({key})
            /\ SwapKeys(Kv') = SwapKeys(Kv) \cup {key}
            /\ key \notin SwapKeys(Kv) => request'.path = "/initiate"
            /\ key \in SwapKeys(Kv) =>
                 /\ request'.path \in {"/claim", "/refund"}
                 /\ JstzStatus(Kv, key) = OPEN
                 /\ JstzStatus(Kv', key) \in {CLAIMED, REFUNDED}
     /\ (Serves("/swap/") /\ slice(request'.hashlock, 2) \in SwapKeys(Kv)) =>
          /\ DOMAIN JSONparse(response'.body) = {"found", "swap"}
          /\ JSONparse(response'.body).found
          /\ JSONparse(response'.body).swap = SafeSwap(JSONparse(Kv'[slice(request'.hashlock, 2)]))]_vars

\* a query finds a claimed swap after two more swaps were created and the
\* oldest keys have left the index
C21_Witness ==
  /\ request.path = "/swap/"
  /\ request.hashlock = agreed.jstz
  /\ DOMAIN JSONparse(response.body) = {"found", "swap"}
  /\ JSONparse(response.body).swap.status = CLAIMED
  /\ Created(Kv) = KEEP_LAST_KEYS + 1
  /\ ~Includes(getAllSwapKeys(Kv, INTERNAL_KEYS_LIMIT), NthHashlock(1))

\* ------------------------------------------------------------ the digest

\* a call of sha256 in the Jstz code has returned
Hashes(typeof) == request.path = "sha256" /\ request.typeof = typeof

\* C22: every call of the digest on a byte string, in either environment and in
\* whatever form the byte string is passed, returns the standard SHA-256 value
\* of that byte string, the same at every call.
C22_DigestIsStandard ==
  /\ request.path = "sha256" => response.body = HexString(StandardDigest(Hashed))
  /\ tx.fn = "sha256" => receipt.output = StandardDigest(Hashed)

\* the byte strings passed as hex digits or as an array of bytes have the
\* standard digest in both environments, whether text or not and whatever the
\* number of blocks
DigestOfBytesIsStandard ==
  /\ (Hashes("object") \/ (Hashes("string") /\ toLowerCase(request.message) = HexString(Hashed))) =>
       response.body = HexString(StandardDigest(Hashed))
  /\ tx.fn = "sha256" => receipt.output = StandardDigest(Hashed)

\* the digest of a text whose code units are all below 2048 and that does not
\* start with '0x' is the standard digest of its UTF-8 encoding
DigestOfNarrowTextIsStandard ==
  (/\ Hashes("string")
   /\ request.message = TextOf(Hashed)
   /\ ~startsWith0x(request.message)
   /\ \A i \in 1..Len(request.message) : request.message[i] < 2048) =>
    response.body = HexString(StandardDigest(Hashed))

\* the digest of the text U+20AC is the digest of the empty byte string
EuroHashedAsNothing ==
  /\ Hashes("string")
  /\ request.message = EuroText
  /\ response.body = HexString(StandardDigest(NoBytes))

\* ------------------------------------------------------------ the two implementations

\* the Etherlink account of a Jstz address, address(0) for none
EvmAccount(address) ==
  IF address = null THEN ZeroAddress ELSE (CHOOSE p \in Parties : p.jstz = address).evm

\* the record Jstz holds and the one Etherlink holds are the same swap: sender,
\* amount, expiration and status, and the recipient, which a claim on Etherlink
\* sets to the claimer where there was none
SameSwap(stored, details) ==
  /\ details.status = stored.status
  /\ details.sender = EvmAccount(stored.sender)
  /\ details.amount = stored.amountMutez
  /\ details.expiration = stored.expiration
  /\ details.recipient =
       EvmAccount(IF stored.recipient = null /\ stored.status = CLAIMED THEN stored.claimedBy
                  ELSE stored.recipient)

\* both chains hold no swap under the agreed hashlock, or both the same swap
StoresAgree(kv, sw) ==
  /\ (StoredSwap(kv, agreed.jstz) # nullObject) = _swapExists(sw, agreed.evm)
  /\ StoredSwap(kv, agreed.jstz) # nullObject =>
       SameSwap(StoredSwap(kv, agreed.jstz), SwapDetails(sw, agreed.evm))

\* both chains hold no swap under the agreed hashlock, or both one of the same status
SameStatus(kv, sw) ==
  /\ (StoredSwap(kv, agreed.jstz) # nullObject) = _swapExists(sw, agreed.evm)
  /\ StoredSwap(kv, agreed.jstz) # nullObject =>
       StoredSwap(kv, agreed.jstz).status = SwapDetails(sw, agreed.evm).status

\* the call was accepted on both chains or rejected on both
SameOutcome(resp, rcpt) == (resp.status = 200) = (rcpt.status = "success")

\* what the two implementations treat alike: a call by an externally owned
\* account that, if it sends an amount, sends at least the minimum of Jstz
InCommon(call) ==
  /\ Payable(call.sender)
  /\ call.fn = "initiateSwap" => call.value >= MIN_AMOUNT_MUTEZ \/ call.value = 0

Payouts(swapId) == {i \in 1..Len(paid) : paid[i].swapId = swapId}

\* C24: when the receiver of a claim or refund transfer calls claimSwap or
\* refundSwap for the same swap while the transfer is in progress, the nested
\* call is rejected as not open, and the amount of a swap leaves the contract at
\* most once.
C24_NoSecondPayout ==
  [][/\ (tx = NoTx /\ "callback" \in DOMAIN tx') =>
          /\ receipt'.nested.status = "reverted"
          /\ receipt'.nested.error = "SwapNotOpen"
     /\ \A id \in SwapIds : Cardinality(Payouts(id)') <= 1]_vars

\* the receiver has claimed a swap while the contract held another one, has
\* called claimSwap again within the transfer and caught the failure
C24_Witness ==
  /\ "callback" \in DOMAIN tx
  /\ tx.fn = "claimSwap"
  /\ tx.callback = "claimSwap"
  /\ receipt.status = "success"
  /\ balance > 0
  /\ Cardinality(Payouts(tx.swapId)) = 1

\* ------------------------------------------------------------ racing requests

\* the claims and refunds of a hashlock answered with success so far
Resolutions(hashlock) ==
  {i \in 1..Len(response) :
     /\ response[i].req.path \in {"/claim", "/refund"}
     /\ response[i].req.hashlock = hashlock
     /\ response[i].resp.status = 200}

\* C25: however the Jstz requests interleave, of the claims and refunds of one
\* swap at most one succeeds, and at most one transfer is issued for it: a
\* request that resumes after another has resolved the swap finds it resolved.
C25_OneRacerSucceeds ==
  /\ Cardinality(Resolutions(agreed.jstz)) <= 1
  /\ Len(issued) <= 1
  /\ \A i \in 1..Len(response) :
       (response[i].req.path \in {"/claim", "/refund"} /\ response[i].resp.status # 200
          /\ \E j \in Resolutions(agreed.jstz) : j < i) =>
         JSONparse(response[i].resp.body).error[1] = "Swap is "

\* a claim and a refund waited together on the open swap, the refund that
\* arrived later resumed first and succeeded, and the claim was then refused
C25_Witness ==
  \E i, j \in 1..Len(response) :
    /\ i < j
    /\ response[i].id > response[j].id
    /\ response[i].req.path = "/refund"
    /\ response[i].resp.status = 200
    /\ response[j].req.path = "/claim"
    /\ response[j].resp.status = 400
    /\ \E w \in 1..Len(response) :
         response[w].req.path = "/initiate" /\ response[w].id < response[j].id /\ w < i

\* ------------------------------------------------------------ the padding

\* the 8 bytes of a 64-bit number, most significant first, for numbers below 2^24
BigEndian64(number) ==
  <<0, 0, 0, 0, 0, (number \div 65536) % 256, (number \div 256) % 256, number % 256>>

\* C26: the padded message of an input of n bytes is the input, the byte 0x80,
\* zero bytes, and the bit length 8 * n as 64 bits, most significant byte first;
\* its length is the smallest multiple of 64 that is at least n + 9.
C26_Padding ==
  response # NoResponse =>
    \E input \in {request.message}, padded \in {response.body} :
    \E n \in {Len(input)} :
      /\ Len(padded) % 64 = 0
      /\ Len(padded) >= n + 9
      /\ Len(padded) - 64 < n + 9
      /\ SubSeq(padded, 1, n) = input
      /\ padded[n + 1] = 128
      /\ \A i \in (n + 2)..(Len(padded) - 8) : padded[i] = 0
      /\ SubSeq(padded, Len(padded) - 7, Len(padded)) = BigEndian64(8 * n)
      /\ n <= 55 => Len(padded) = 64
      /\ n = 56 => Len(padded) = 128

\* an input of 56 bytes has been padded to two blocks
C26_Witness ==
  /\ response # NoResponse
  /\ Len(request.message) = 56
  /\ Len(response.body) = 128

\* ------------------------------------------------------------ the index of the swaps

\* the list stored under 'swap_keys', empty while there is none
Index(kv) == IF swap_keys \in DOMAIN kv THEN JSONparse(kv[swap_keys]) ELSE <<>>

\* C27: the index holds no hashlock twice and at most 1000 keys; an initiate
\* that succeeds puts its hashlock at the end, behind the keys that were
\* there, and drops the oldest key when the index was full; no other call
\* changes the index.
C27_IndexIsBoundedAndOrdered ==
  [][/\ Len(Index(Kv')) <= KEEP_LAST_KEYS
     /\ Cardinality({Index(Kv')[i] : i \in 1..Len(Index(Kv'))}) = Len(Index(Kv'))
     /\ IF Serves("/initiate") /\ response'.status = 200
          THEN Index(Kv') =
                 Append(IF Len(Index(Kv)) < KEEP_LAST_KEYS THEN Index(Kv) ELSE Tail(Index(Kv)),
                        request'.hashlock)
          ELSE Index(Kv') = Index(Kv)]_vars

\* an initiate has succeeded on a full index: its hashlock is the last key
\* and the oldest key has left the index
C27_Witness ==
  /\ request.path = "/initiate"
  /\ response.status = 200
  /\ Len(Index(Kv)) = KEEP_LAST_KEYS
  /\ Cardinality(SwapKeys(Kv)) > KEEP_LAST_KEYS
  /\ Index(Kv)[KEEP_LAST_KEYS] = request.hashlock
  /\ Index(Kv)[1] = NthHashlock(2)

\* ------------------------------------------------------------ the list

\* the most recent n keys of an index
Recent(keys, n) ==
  IF n <= 0 THEN <<>>
  ELSE IF n >= Len(keys) THEN keys
  ELSE SubSeq(keys, Len(keys) - n + 1, Len(keys))

\* the views of the swaps under keys, in their order, that have the status asked for
Views(kv, keys, status) ==
  SelectSeq([i \in 1..Len(keys) |-> SafeSwap(JSONparse(kv[slice(keys[i], 2)]))],
            LAMBDA view : status = "" \/ view.status = status)

\* C28: a list returns the views of the swaps under the most recent limit keys
\* of the index, in index order, that have the status asked for, if one is:
\* the filter is applied to those keys only.
C28_ListIsRecentAndFiltered ==
  (request.path = "/swaps" /\ ListLimit(request.limit) # NaN) =>
    JSONparse(response.body) =
      Views(Kv, Recent(Index(Kv), ListLimit(request.limit)), request.status)

\* the same for the limits above zero
ListOfPositiveLimit ==
  (request.path = "/swaps" /\ ListLimit(request.limit) # NaN /\ ListLimit(request.limit) > 0) =>
    JSONparse(response.body) =
      Views(Kv, Recent(Index(Kv), ListLimit(request.limit)), request.status)

\* a list with limit 1 and status OPEN is empty, the most recent swap being
\* refunded, while an older swap is open
FilteredAfterLimit ==
  /\ request.path = "/swaps"
  /\ request.limit = <<49>>
  /\ request.status = "OPEN"
  /\ JSONparse(response.body) = <<>>
  /\ \E key \in SwapKeys(Kv) : JstzStatus(Kv, key) = OPEN

\* a list with limit 0 returns swaps
ListOfLimitZero ==
  /\ request.path = "/swaps"
  /\ request.limit = <<48>>
  /\ Len(JSONparse(response.body)) > 0

\* ------------------------------------------------------------ the reads

\* C29: a query and a list leave every swap record and the index as they are
\* and issue no transfer; a query of a malformed hashlock, or of one no swap is
\* stored under, is answered with a result that says not found, not with an
\* error response.
C29_ReadsChangeNothing ==
  [][(Serves("/swap/") \/ Serves("/swaps")) =>
       /\ Kv' = Kv
       /\ issued' = issued
       /\ response'.status = 200
       /\ response'.XJstzTransfer = null
       /\ (Serves("/swap/") /\ StoredSwap(Kv, request'.hashlock) = nullObject) =>
            /\ DOMAIN JSONparse(response'.body) = {"found", "error"}
            /\ ~JSONparse(response'.body).found
       /\ (Serves("/swap/") /\ StoredSwap(Kv, request'.hashlock) # nullObject) =>
            JSONparse(response'.body).found]_vars

\* a query of a malformed hashlock was answered not found while a swap is stored
C29_Witness ==
  /\ request.path = "/swap/"
  /\ request.hashlock = BadHashlock
  /\ response.status = 200
  /\ ~JSONparse(response.body).found
  /\ SwapKeys(Kv) # {}

\* ------------------------------------------------------------ what a resolution writes

\* the fields a claim or a refund adds to a Jstz record
ResolutionFields == {"claimedBy", "claimedAt", "revealedSecret", "refundedAt"}

\* a Jstz record after its resolution: the fields it had keep their values,
\* the status apart, and the fields added are resolution fields
ResolvedOnly(old, new) ==
  /\ DOMAIN old \subseteq DOMAIN new
  /\ DOMAIN new \ DOMAIN old \subseteq ResolutionFields
  /\ \A f \in DOMAIN old \ {"status"} : new[f] = old[f]

\* an Etherlink record after its resolution: hashLock, sender, amount and
\* expiration keep their values, and the recipient is the one named at
\* initiate or, if none was, the claimer
ResolvedOnlyDetails(old, new, claimer) ==
  /\ new.hashLock = old.hashLock
  /\ new.sender = old.sender
  /\ new.amount = old.amount
  /\ new.expiration = old.expiration
  /\ new.recipient = (IF old.recipient = ZeroAddress /\ new.status = CLAIMED
                      THEN claimer ELSE old.recipient)

\* C30: a claim or refund that succeeds changes the status of the swap it
\* names and records its resolution; hashlock, sender, amount and expiration
\* of that swap, every other swap record and the index stay as they were.
C30_ResolutionWritesOneSwap ==
  [][/\ ((Serves("/claim") \/ Serves("/refund")) /\ response'.status = 200) =>
          \E key \in {slice(request'.hashlock, 2)} :
            /\ SwapKeys(Kv') = SwapKeys(Kv)
            /\ Untouched({key})
            /\ Index(Kv') = Index(Kv)
            /\ ResolvedOnly(JSONparse(Kv[key]), JSONparse(Kv'[key]))
            /\ JSONparse(Kv'[key]).status # JSONparse(Kv[key]).status
     /\ ((Executes("claimSwap") \/ Executes("refundSwap")) /\ receipt'.status = "success") =>
          /\ DOMAIN swaps' = DOMAIN swaps
          /\ \A id \in DOMAIN swaps \ {tx'.swapId} : swaps'[id] = swaps[id]
          /\ ResolvedOnlyDetails(swaps[tx'.swapId], swaps'[tx'.swapId], tx'.sender)
          /\ swaps'[tx'.swapId].status # swaps[tx'.swapId].status]_vars

\* a swap was refunded on Jstz while the store holds a claimed swap as well
C30_Witness ==
  /\ request.path = "/refund"
  /\ response.status = 200
  /\ \E key \in SwapKeys(Kv) : JstzStatus(Kv, key) = CLAIMED
  /\ JstzStatus(Kv, slice(request.hashlock, 2)) = REFUNDED
\* ------------------------------------------------------------ C31

\* the value transfers made for a swap, in the order they were made
SentFor(log, swapId) == SelectSeq(log, LAMBDA t : t.swapId = swapId)

\* the account a resolved swap pays
Payee(swap) == IF swap.status = CLAIMED THEN swap.recipient ELSE swap.sender

\* the transaction of this step has failed on the outgoing transfer
TransferFails ==
  /\ tx = NoTx /\ tx' # NoTx
  /\ tx'.fn \in {"claimSwap", "refundSwap"}
  /\ receipt'.status = "reverted"
  /\ receipt'.error = "TransferFailed"

Commitment(kv, key) == toLowerCase(JSONparse(kv[key]).hashlock)

\* C32: the Jstz store holds at most one swap per commitment value: no two
\* records have hashlocks that differ only in the letter case of their hex digits.
C32_OneSwapPerCommitment ==
  \A k1, k2 \in SwapKeys(Kv) : Commitment(Kv, k1) = Commitment(Kv, k2) => k1 = k2

\* the same holds as long as every hashlock is written in one letter case
OneSwapPerHashlock ==
  \A k1, k2 \in SwapKeys(Kv) :
    JSONparse(Kv[k1]).hashlock = JSONparse(Kv[k2]).hashlock => k1 = k2

\* two records for one commitment, both claimed with the one secret
BothCasesClaimed ==
  \E k1, k2 \in SwapKeys(Kv) :
    /\ k1 # k2
    /\ Commitment(Kv, k1) = Commitment(Kv, k2)
    /\ JstzStatus(Kv, k1) = CLAIMED /\ JstzStatus(Kv, k2) = CLAIMED
    /\ JSONparse(Kv[k1]).revealedSecret = JSONparse(Kv[k2]).revealedSecret
\* ------------------------------------------------------------ C33

\* the Claimed and the Refunded records of the Jstz store
ClaimedSwaps == {JSONparse(Kv[key]) : key \in {k \in SwapKeys(Kv) : JstzStatus(Kv, k) = CLAIMED}}
RefundedSwaps == {JSONparse(Kv[key]) : key \in {k \in SwapKeys(Kv) : JstzStatus(Kv, k) = REFUNDED}}

\* C33: with a clock that never goes backwards but may advance between two
\* reads inside one call, every Claimed swap has claimedAt < expiration and
\* every Refunded swap has refundedAt >= expiration.
C33_StampsRespectExpiration ==
  /\ \A swap \in ClaimedSwaps : swap.claimedAt < swap.expiration
  /\ \A swap \in RefundedSwaps : swap.refundedAt >= swap.expiration

\* the half of it that holds: a refund is stamped at or after the expiration
RefundedAtOrAfterExpiration ==
  \A swap \in RefundedSwaps : swap.refundedAt >= swap.expiration

\* a claim is stamped with a second that is not before the creation of the swap
ClaimedAfterCreation ==
  \A swap \in ClaimedSwaps : swap.claimedAt >= swap.createdAt

\* a swap claimed in the second of its expiration
ClaimedAtExpiration ==
  \E swap \in ClaimedSwaps : swap.claimedAt = swap.expiration

\* a swap has been refunded
SomeRefunded == RefundedSwaps # {}
\* ------------------------------------------------------------ C34

\* the mutez the runtime says came with a request
HeaderMutez(req) == IF req.XJstzAmount = null THEN 0 ELSE ParseInt10(req.XJstzAmount)

\* the sum of the transfer instructions issued so far
RECURSIVE InstructedFrom(_, _)
InstructedFrom(log, i) ==
  IF i > Len(log) THEN 0 ELSE ParseInt10(log[i].header) + InstructedFrom(log, i + 1)
Instructed(log) == InstructedFrom(log, 1)

\* the sum of the amounts the stored swaps were created with
RECURSIVE EscrowedBy(_, _)
EscrowedBy(kv, keys) ==
  IF keys = {} THEN 0
  ELSE LET key == CHOOSE k \in keys : TRUE
       IN  JSONparse(kv[key]).amountMutez + EscrowedBy(kv, keys \ {key})
Escrowed(kv) == EscrowedBy(kv, SwapKeys(kv))

ServesAnonymous ==
  /\ request = NoRequest /\ request' # NoRequest
  /\ request'.path \in {"/initiate", "/claim", "/refund"}
  /\ request'.Referer = null

\* C35: an initiate, claim or refund request that reaches the Jstz handler
\* without a runtime caller identity is rejected and changes nothing, also for a
\* swap without a designated recipient; no stored swap has 'anonymous' as its
\* sender or as its claimer.
C35_AnonymousIsRejected ==
  [][/\ ServesAnonymous =>
          /\ response'.status = 400
          /\ response'.XJstzTransfer = null
          /\ Kv' = Kv
          /\ issued' = issued
     /\ \A key \in SwapKeys(Kv') :
          /\ JSONparse(Kv'[key]).sender # anonymous
          /\ JstzStatus(Kv', key) = CLAIMED => JSONparse(Kv'[key]).claimedBy # anonymous]_vars

\* a claim with the right secret, for an Open swap without a designated
\* recipient and before its expiration, has been rejected for want of a caller
C35_Witness ==
  /\ request # NoRequest
  /\ request.path = "/claim"
  /\ request.Referer = null
  /\ request.hashlock = agreed.jstz
  /\ request.secret # undefined
  /\ SecretMatches(hashSecret(request.secret), request.hashlock)
  /\ slice(agreed.jstz, 2) \in SwapKeys(Kv)
  /\ JstzStatus(Kv, slice(agreed.jstz, 2)) = OPEN
  /\ JSONparse(Kv[slice(agreed.jstz, 2)]).recipient = null
  /\ now(dateNow) < JSONparse(Kv[slice(agreed.jstz, 2)]).expiration
  /\ response.status = 400
  /\ JSONparse(response.body).error = <<"Claimer address required">>
\* ------------------------------------------------------------ C36

\* a fetched result with a final status
FinalResult(outcome) ==
  outcome.settled = "response" /\ outcome.ok /\ outcome.status \in {"applied", "failed"}

\* the polls made so far
Polls == Len(poll.fetched)

\* what holds of a call of pollJstzOperation at every moment
PollingIsBounded ==
  /\ Polls <= poll.maxAttempts
  /\ \A k \in 1..(Polls - 1) : ~FinalResult(poll.fetched[k])
  /\ poll.pc \in {"for", "fetch"} => (poll.delays = Polls /\ poll.i = Polls)
  /\ poll.pc = "timer" =>
       /\ ~FinalResult(poll.fetched[Polls])
       /\ poll.delays = Polls - 1
  /\ poll.pc = "returned" =>
       /\ Polls >= 1
       /\ FinalResult(poll.fetched[Polls])
       /\ poll.result = poll.fetched[Polls]
       /\ poll.delays = Polls - 1
  /\ poll.pc = "thrown" =>
       /\ poll.error = <<"Operation polling timeout">>
       /\ Polls = poll.maxAttempts
       /\ \A k \in 1..Polls : ~FinalResult(poll.fetched[k])
       /\ poll.delays = Polls

TimedOut ==
  /\ poll.pc = "thrown"
  /\ poll.maxAttempts = MaxAttempts
  /\ \E k \in 1..Polls : poll.fetched[k] = [settled |-> "response", ok |-> FALSE, status |-> "applied"]
====
